---- MODULE Spec2Model ----
(***************************************************************************)
(* Model of the agentic task-execution engine of browser-agent:            *)
(*   - the task-execution loop in its variants (executor.UseCase.Execute,  *)
(*     ExecuteTaskUseCase.Execute, orchestrator.UseCase.Execute and the    *)
(*     form / extraction sub-agents' executeWithIterations);               *)
(*   - the streaming response assembler (OpenRouterAdapter.ChatStream in   *)
(*     its two versions and the merge loop of ReactAgent.Run);             *)
(*   - the evaluator (Evaluator.Evaluate) and the evaluated sub-agent      *)
(*     (Agent.Execute of the form and extraction agents);                  *)
(*   - the tool registry (ToolRegistryImpl) with the sub-agents' tool      *)
(*     views (filterTools) and dispatch (executeTool);                     *)
(*   - the message conversions of the model port (convertMessages,         *)
(*     convertResponseMessage);                                            *)
(*   - successive invocations on one object (UseCase.Execute,              *)
(*     ReactAgent.Run);                                                    *)
(*   - the browser adapter (rod.BrowserAdapter).                           *)
(*                                                                         *)
(* Conventions: a Go pointer (or an error value) is a sequence of length   *)
(* at most one, <<>> being nil; Go strings are TLA+ strings.               *)
(***************************************************************************)
EXTENDS Integers, Sequences, FiniteSets, TLC

VARIABLES
    \* ---- task-execution loop ----
    variant,      \* which loop implementation runs
    llmTurn,      \* the tool calls the model puts in every tool-calling turn
    pc,           \* position of the loop
    messages,     \* the transcript
    iteration,    \* the loop counter of Execute
    resp,         \* resp.Message of the current iteration
    tcIdx,        \* position of `for _, tc := range resp.Message.ToolCalls`
    result,       \* first return value of Execute
    err,          \* second return value of Execute
    modelCalls,   \* number of Chat / ChatStream calls issued to the port
    executed,     \* the tool.Execute invocations, in order (Name, Arguments)
    ctxDone,      \* whether the caller's context is cancelled
    request,      \* the ChatRequest of the last model call (<<>> before the first)
    \* ---- response assembler ----
    asmVariant,       \* which assembler implementation runs
    asmPc,            \* position of the assembler
    received,         \* the deltas received so far, in arrival order
    toolCallsMap,     \* index -> accumulated tool call
    thinkingContent,  \* reasoning buffer
    textContent,      \* text buffer
    indices,          \* the stream indices emitted at stream end, in order
    recvErr,          \* the error stream.Recv returned last (<<>> is nil)
    finalMessage,     \* the assembled message (a pointer: <<>> until assembled)
    \* ---- evaluated sub-agent (form / extraction Agent.Execute) ----
    agentPc,      \* position of Agent.Execute
    retry,        \* the loop counter of Agent.Execute
    taskText,     \* the local `task`: the task text of the next attempt
    lastResult,   \* the local `lastResult`
    agentResult,  \* first return value of Agent.Execute
    agentErr,     \* second return value of Agent.Execute
    attempts,     \* the task texts given to executeWithIterations, in order
    results,      \* the results of the attempts that returned no error, in order
    evaluations,  \* the Evaluate calls that returned: criteria, judge reply, verdict, error
    \* ---- tool registry and the sub-agents' tool views ----
    tools,        \* ToolRegistryImpl.tools: name -> registered tool
    registered,   \* the Register calls so far, in order
    listings,     \* the Definitions() / All() calls so far, with what they returned
    views,        \* the filterTools calls so far, with what they returned
    toolRuns,     \* the executeTool calls of the sub-agents so far, with their outcome
    \* ---- message conversion of the model port ----
    convPc,       \* which conversion ran last
    convIn,       \* its argument
    convOut,      \* its result
    \* ---- successive invocations on one object ----
    runObject,    \* the object invoked: executor.UseCase or ReactAgent
    runPc,        \* position of Execute / Run
    runMessages,  \* the transcript: the local `messages`, or the field a.messages
    invocation,   \* number of the current invocation (0 before the first)
    runIter,      \* the loop counter of the current invocation
    requests,     \* the model calls so far: invocation, task, Messages of the request
    \* ---- browser adapter ----
    closed,       \* BrowserAdapter.closed
    browser,      \* BrowserAdapter.browser (a pointer)
    launcher,     \* BrowserAdapter.launcher (a pointer)
    page,         \* BrowserAdapter.page (a pointer)
    inflight,     \* goroutine -> the operation it runs that has passed checkState
    browserLog,   \* the calls that returned, in order of return
    \* ---- delegation from the orchestrator ----
    delegate,     \* how the model behaves inside a delegated sub-agent
    \* ---- orchestrator prompt generation ----
    agentRegistry,  \* SimpleAgentRegistryImpl.agents: the registered agents, one per type
    promptTemplate, \* the template of the last GenerateOrchestratorPrompt call
    listed,         \* what agentRegistry.List() returned in that call
    promptOut       \* what the call returned (<<>> before the first call)

loopVars == <<variant, llmTurn, pc, messages, iteration, resp, tcIdx, result, err,
              modelCalls, executed, ctxDone, request>>
asmVars == <<asmVariant, asmPc, received, toolCallsMap, thinkingContent,
             textContent, indices, recvErr, finalMessage>>
agentVars == <<agentPc, retry, taskText, lastResult, agentResult, agentErr,
               attempts, results, evaluations>>
regVars == <<tools, registered, listings, views, toolRuns>>
convVars == <<convPc, convIn, convOut>>
runVars == <<runObject, runPc, runMessages, invocation, runIter, requests>>
browserVars == <<closed, browser, launcher, page, inflight, browserLog>>
orchVars == <<delegate>>
promptVars == <<agentRegistry, promptTemplate, listed, promptOut>>
\* the components beside the loop, the assembler and the evaluated sub-agent
extVars == <<regVars, convVars, runVars, browserVars, orchVars, promptVars>>
vars == <<loopVars, asmVars, agentVars, extVars>>

(***************************************************************************)
(* Bounds of the model.                                                    *)
(***************************************************************************)
\* largest number of tool calls the model puts in one turn
MaxCalls == 2
\* largest number of chunks of one stream
MaxChunks == 3
\* smallest payload of a tool, and how far the payloads go beyond the limit
MinPayload == 5
PayloadSpread == 2
\* largest number of calls on the tool registry and on the sub-agents over it
MaxRegistryCalls == 4
\* largest number of content blocks of a message given to convertMessages
MaxBlocks == 3
\* largest number of invocations on one object, and of model calls in one
MaxInvocations == 3
MaxTurns == 2
\* largest number of calls made on the browser adapter
MaxBrowserCalls == 3

(***************************************************************************)
(* Program constants.                                                      *)
(***************************************************************************)
ExecutorMaxIterations == 50
ExecuteTaskMaxIterations == 50
OrchestratorMaxIterations == 30
FormMaxIterations == 5
ExtractionMaxIterations == 5
NavigationMaxIterations == 10
maxObservationLen == 20000

RoleSystem == "system"
RoleUser == "user"
RoleAssistant == "assistant"
RoleTool == "tool"

\* the loops that implement input.TaskExecutor (they return *ExecuteResult)
TaskExecutors == {"executor", "execute_task", "orchestrator"}
\* the sub-agent loops (they return a string)
SubAgents == {"form", "extraction"}
Variants == TaskExecutors \cup SubAgents

maxIterations(v) ==
    CASE v = "executor" -> ExecutorMaxIterations
      [] v = "execute_task" -> ExecuteTaskMaxIterations
      [] v = "orchestrator" -> OrchestratorMaxIterations
      [] v = "form" -> FormMaxIterations
      [] v = "extraction" -> ExtractionMaxIterations
      [] v = "navigation" -> NavigationMaxIterations

(***************************************************************************)
(* entity.Message and entity.ToolCall (the fields the loop reads or        *)
(* writes; ContentBlocks is carried through unread by the loop).           *)
(***************************************************************************)
Message(role, content, toolCalls, toolCallID, name) ==
    [Role |-> role, Content |-> content, ToolCalls |-> toolCalls,
     ToolCallID |-> toolCallID, Name |-> name]

ToolCall(id, name, arguments) == [ID |-> id, Name |-> name, Arguments |-> arguments]

systemPrompt == "You are a browser agent."
task == "say hello"

(***************************************************************************)
(* The collaborators behind the ports, as the loop sees them.              *)
(***************************************************************************)
\* entity.ToolRunAgent and entity.ToolAgentForm, the tools of the
\* orchestrator that delegate to a sub-agent
ToolRunAgent == "run_agent"
ToolAgentForm == "agent_form"

\* names the tool registry resolves; any other name is unknown
Registered == {"echo", "boom", "fail", ToolRunAgent, ToolAgentForm}

\* ToolRegistry.Get(name): the second return value
Get(name) == name \in Registered

\* ToolPort.Execute(ctx, arguments) of the registered tools: "echo" returns
\* its arguments, "fail" fails with its arguments as the message, "boom"
\* fails with a fixed message
ToolExecute(name, arguments) ==
    CASE name = "echo" -> [result |-> arguments, err |-> <<>>]
      [] name = "fail" -> [result |-> "", err |-> <<arguments>>]
      [] OTHER -> [result |-> "", err |-> <<"boom failed">>]

\* the tool calls a model turn is made of
Calls == {ToolCall("call_1", "echo", "hi"),
          ToolCall("call_2", "ghost", "{}"),
          ToolCall("call_3", "boom", "x")}

RECURSIVE SeqsUpTo(_, _)
SeqsUpTo(S, n) ==
    IF n = 0 THEN {<<>>}
    ELSE LET shorter == SeqsUpTo(S, n - 1)
         IN shorter \cup {Append(s, x) : s \in {t \in shorter : Len(t) = n - 1}, x \in S}

\* the non-empty tool-call lists of a turn
ToolTurns == SeqsUpTo(Calls, MaxCalls) \ {<<>>}

\* text of the turns of the model
thinkingText == "I will use a tool."
finalText == "Hello!"
failedText == "FAILED: nothing found"
\* the texts of a turn without tool calls
Answers == {finalText, failedText}
\* the error of a failing model call, as the port returns it
chatFailure == "chat completion failed: connection reset"
\* context.Canceled, which a port returns once the context is cancelled
ctxCanceled == "context canceled"

\* the error of a model call that does not return a turn
ChatError(done) == IF done THEN ctxCanceled ELSE chatFailure

(***************************************************************************)
(* The task-execution loop.                                                *)
(***************************************************************************)
\* mutant: the loop stops one iteration early
LoopContinuesStrict(v, i) == i < maxIterations(v)

\* the loop condition `iteration <= maxIterations`
LoopContinues(v, i) == i <= maxIterations(v)

\* fmt.Errorf("max iterations (%d) exceeded", maxIterations)
MaxIterationsError(v) == "max iterations (" \o ToString(maxIterations(v)) \o ") exceeded"

\* fmt.Errorf("llm request failed: %w", err)
LLMRequestFailed(e) == "llm request failed: " \o e

\* mutant: the iterations are counted from zero
ExecuteResultZeroBased(v, content, i) ==
    IF v \in TaskExecutors
    THEN <<[FinalAnswer |-> content, Iterations |-> i - 1]>>
    ELSE content

\* the first return value on success
ExecuteResult(v, content, i) ==
    IF v \in TaskExecutors
    THEN <<[FinalAnswer |-> content, Iterations |-> i]>>
    ELSE content

\* the first return value beside an error: a nil *ExecuteResult, or ""
NoResult(v) == IF v \in TaskExecutors THEN <<>> ELSE ""

\* mutant: the observation does not name the tool
UnknownToolObservationUnnamed(v, name) ==
    IF v = "orchestrator" THEN "Error: unknown agent tool" ELSE "Error: unknown tool"

\* the observation of a call whose name the registry does not resolve
UnknownToolObservation(v, name) ==
    IF v = "orchestrator"
    THEN "Error: unknown agent tool '" \o name \o "'"
    ELSE "Error: unknown tool '" \o name \o "'"

\* mutant: the error message is passed on without the "Error: " prefix
ToolErrorObservationRaw(e) == e

\* the observation of a tool whose Execute returned the error e
ToolErrorObservation(e) == "Error: " \o e

\* the truncation of a tool's result
Truncate(r) ==
    IF Len(r) > maxObservationLen
    THEN SubSeq(r, 1, maxObservationLen) \o "\n... (truncated)"
    ELSE r

\* the observation executeTool returns once the resolved tool has returned ret
ToolObservation(ret) ==
    IF ret.err # <<>> THEN ToolErrorObservation(ret.err[1]) ELSE Truncate(ret.result)

\* mutant: the call id is not carried into the tool-role message
ToolMessageWithoutID(tc, observation) == Message(RoleTool, observation, <<>>, "", tc.Name)

\* the tool-role message appended for the call tc
ToolMessage(tc, observation) == Message(RoleTool, observation, <<>>, tc.ID, tc.Name)

\* the position of the loop after the observation of call number i of the
\* turn was appended: the next call of the turn, or the next iteration
AfterToolCall(i) ==
    IF i < Len(resp.ToolCalls)
    THEN /\ tcIdx' = i + 1
         /\ iteration' = iteration
         /\ pc' = "DispatchingTools"
    ELSE /\ tcIdx' = 0
         /\ iteration' = iteration + 1
         /\ pc' = "Running"

(***************************************************************************)
(* Delegation: the tools of the orchestrator run a sub-agent               *)
(* (RunAgentTool.Execute, AgentTool.Execute).                              *)
(***************************************************************************)
\* the sub-agents of the agent registry, by entity.SubAgentType
RegisteredAgents == {"navigation", "extraction", "form"}

\* how the model behaves inside the sub-agent a tool delegates to
SubAgentRuns == {"answers", "chat fails", "calls tools"}

\* the text of the forced final report of the navigation agent
summaryText == "SUMMARY: nothing more was found"

\* what agent.Execute(ctx, task) returns for each behaviour of the model: the
\* answer; the error of the failed model call; for a model whose every turn
\* carries tool calls the ceiling error of the form and extraction agents,
\* the forced final report of the navigation agent
SubAgentExecute(agentType, run) ==
    CASE run = "answers" -> [result |-> finalText, err |-> <<>>]
      [] run = "chat fails" -> [result |-> "", err |-> <<LLMRequestFailed(chatFailure)>>]
      [] OTHER -> IF agentType = "navigation"
                  THEN [result |-> summaryText, err |-> <<>>]
                  ELSE [result |-> "", err |-> <<MaxIterationsError(agentType)>>]

\* argument texts of the delegating tools
argsForm == "{\"agent_type\":\"form\",\"task\":\"fill the login form\"}"
argsNavigation == "{\"agent_type\":\"navigation\",\"task\":\"open the inbox\"}"
argsWizard == "{\"agent_type\":\"wizard\",\"task\":\"do magic\"}"
argsTask == "{\"task\":\"press the button\"}"
argsCut == "{\"agent_type\":\"form\",\"task\":"

\* json.Unmarshal into struct{AgentType, Task}: the texts that decode, with
\* the value they decode to (an absent field keeps its zero value)
DecodableArgs ==
    {<<argsForm, [AgentType |-> "form", Task |-> "fill the login form"]>>,
     <<argsNavigation, [AgentType |-> "navigation", Task |-> "open the inbox"]>>,
     <<argsWizard, [AgentType |-> "wizard", Task |-> "do magic"]>>,
     <<argsTask, [AgentType |-> "", Task |-> "press the button"]>>}

UnmarshalArgs(text) ==
    IF \E d \in DecodableArgs : d[1] = text
    THEN [args |-> <<(CHOOSE d \in DecodableArgs : d[1] = text)[2]>>, err |-> <<>>]
    ELSE [args |-> <<>>, err |-> <<"unexpected end of JSON input">>]

\* mutant: a failed delegation is returned as the result of the tool
RunAgentExecuteAsResult(arguments, run) ==
    LET decoded == UnmarshalArgs(arguments)
    IN IF decoded.err # <<>>
       THEN [result |-> "invalid arguments: " \o decoded.err[1], err |-> <<>>]
       ELSE IF decoded.args[1].AgentType \notin RegisteredAgents
       THEN [result |-> "agent not found: " \o decoded.args[1].AgentType, err |-> <<>>]
       ELSE LET ret == SubAgentExecute(decoded.args[1].AgentType, run)
            IN IF ret.err # <<>>
               THEN [result |-> "agent execution failed: " \o ret.err[1], err |-> <<>>]
               ELSE ret

\* RunAgentTool.Execute
RunAgentExecute(arguments, run) ==
    LET decoded == UnmarshalArgs(arguments)
    IN IF decoded.err # <<>>
       THEN [result |-> "", err |-> <<"invalid arguments: " \o decoded.err[1]>>]
       ELSE IF decoded.args[1].AgentType \notin RegisteredAgents
       THEN [result |-> "", err |-> <<"agent not found: " \o decoded.args[1].AgentType>>]
       ELSE LET ret == SubAgentExecute(decoded.args[1].AgentType, run)
            IN IF ret.err # <<>>
               THEN [result |-> "", err |-> <<"agent execution failed: " \o ret.err[1]>>]
               ELSE ret

\* AgentTool.Execute of the tool that wraps the sub-agent agentType
AgentToolExecute(agentType, arguments, run) ==
    LET decoded == UnmarshalArgs(arguments)
    IN IF decoded.err # <<>>
       THEN [result |-> "", err |-> decoded.err]
       ELSE SubAgentExecute(agentType, run)

\* tool.Execute of a registered tool
RegisteredExecute(name, arguments, run) ==
    CASE name = ToolRunAgent -> RunAgentExecute(arguments, run)
      [] name = ToolAgentForm -> AgentToolExecute("form", arguments, run)
      [] OTHER -> ToolExecute(name, arguments)

\* what tool.Execute(ctx, arguments) can return: with a live context the
\* tool's own outcome; with a cancelled context the tool is aborted with the
\* context's error, or has ignored the context
ToolOutcomes(done, name, arguments) ==
    IF done
    THEN {[result |-> "", err |-> <<ctxCanceled>>], RegisteredExecute(name, arguments, delegate)}
    ELSE {RegisteredExecute(name, arguments, delegate)}

\* the tool calls of a turn of the orchestrator's model
DelegationCalls ==
    {ToolCall("call_1", ToolRunAgent, argsForm),
     ToolCall("call_2", ToolRunAgent, argsNavigation),
     ToolCall("call_3", ToolRunAgent, argsWizard),
     ToolCall("call_4", ToolRunAgent, argsCut),
     ToolCall("call_5", ToolAgentForm, argsTask),
     ToolCall("call_6", "agent_analyze", argsTask)}

DelegationTurns == SeqsUpTo(DelegationCalls, MaxCalls) \ {<<>>}

\* no delegation is under way
DelegateIdle == delegate = "answers"

LoopIdle ==
    /\ variant \in Variants
    /\ llmTurn \in ToolTurns
    /\ pc = "idle"
    /\ messages = <<>>
    /\ iteration = 0
    /\ resp = Message(RoleAssistant, "", <<>>, "", "")
    /\ tcIdx = 0
    /\ result = NoResult(variant)
    /\ err = <<>>
    /\ modelCalls = 0
    /\ executed = <<>>
    /\ ctxDone = FALSE
    /\ request = <<>>

\* Execute is called: the transcript starts as [system prompt, user task]
Execute ==
    /\ pc = "idle"
    /\ messages' = <<Message(RoleSystem, systemPrompt, <<>>, "", ""),
                     Message(RoleUser, task, <<>>, "", "")>>
    /\ iteration' = 1
    /\ pc' = "Running"
    /\ UNCHANGED <<extVars, request, asmVars, agentVars, ctxDone, variant, llmTurn, resp, tcIdx, result, err, modelCalls, executed>>

\* the local `toolDefs`: the names of the tool definitions the loop obtained
\* before its first iteration
toolDefs == <<"echo", "boom", "fail">>

\* mutant: only the system prompt, the task and the last message are sent
ChatRequestPruned(msgs) ==
    [Messages |-> IF Len(msgs) > 3 THEN SubSeq(msgs, 1, 2) \o <<msgs[Len(msgs)]>> ELSE msgs,
     Tools |-> toolDefs]

\* output.ChatRequest, as far as the loop fills it
ChatRequest(msgs) == [Messages |-> msgs, Tools |-> toolDefs]

\* loop head, condition true: the model call is issued with the transcript
CallModel ==
    /\ pc = "Running"
    /\ LoopContinues(variant, iteration)
    /\ modelCalls' = modelCalls + 1
    /\ request' = <<ChatRequest(messages)>>
    /\ pc' = "AwaitingModel"
    /\ UNCHANGED <<extVars, asmVars, agentVars, ctxDone, variant, llmTurn, messages, iteration, resp, tcIdx, result, err, executed>>

\* loop head, condition false: the loop is left and Execute fails
MaxIterationsExceeded ==
    /\ pc = "Running"
    /\ variant # "navigation"
    /\ ~LoopContinues(variant, iteration)
    /\ result' = NoResult(variant)
    /\ err' = <<MaxIterationsError(variant)>>
    /\ pc' = "Failed"
    /\ UNCHANGED <<extVars, request, asmVars, agentVars, ctxDone, variant, llmTurn, messages, iteration, resp, tcIdx, modelCalls, executed>>

\* mutant: a failed model call is issued again
ChatFailsRetry ==
    /\ pc = "AwaitingModel"
    /\ pc' = "Running"
    /\ UNCHANGED <<extVars, request, asmVars, agentVars, ctxDone, variant, llmTurn, messages, iteration, resp, tcIdx, result, err,
                   modelCalls, executed>>

\* the model call returns an error
ChatFails ==
    /\ pc = "AwaitingModel"
    /\ result' = NoResult(variant)
    /\ err' = <<LLMRequestFailed(ChatError(ctxDone))>>
    /\ pc' = "Failed"
    /\ UNCHANGED <<extVars, request, asmVars, agentVars, ctxDone, variant, llmTurn, messages, iteration, resp, tcIdx, modelCalls, executed>>

\* the model call returns a turn without tool calls
ChatReturnsAnswer ==
    /\ pc = "AwaitingModel"
    /\ ~ctxDone
    /\ \E text \in Answers :
          LET m == Message(RoleAssistant, text, <<>>, "", "")
          IN /\ resp' = m
             /\ messages' = Append(messages, m)
             /\ result' = ExecuteResult(variant, m.Content, iteration)
    /\ err' = <<>>
    /\ pc' = "Done"
    /\ UNCHANGED <<extVars, request, asmVars, agentVars, ctxDone, variant, llmTurn, iteration, tcIdx, modelCalls, executed>>

\* mutant: the ceiling is looked at before the calls of the turn are dispatched
ChatReturnsToolCallsChecked ==
    /\ pc = "AwaitingModel"
    /\ ~ctxDone
    /\ LET m == Message(RoleAssistant, thinkingText, llmTurn, "", "")
       IN /\ resp' = m
          /\ messages' = Append(messages, m)
    /\ IF iteration = maxIterations(variant)
       THEN /\ tcIdx' = 0
            /\ result' = NoResult(variant)
            /\ err' = <<MaxIterationsError(variant)>>
            /\ pc' = "Failed"
       ELSE /\ tcIdx' = 1
            /\ pc' = "DispatchingTools"
            /\ UNCHANGED <<result, err>>
    /\ UNCHANGED <<extVars, request, asmVars, agentVars, ctxDone, variant, llmTurn, iteration, modelCalls, executed>>

\* the model call returns a turn with tool calls
ChatReturnsToolCalls ==
    /\ pc = "AwaitingModel"
    /\ ~ctxDone
    /\ LET m == Message(RoleAssistant, thinkingText, llmTurn, "", "")
       IN /\ resp' = m
          /\ messages' = Append(messages, m)
    /\ tcIdx' = 1
    /\ pc' = "DispatchingTools"
    /\ UNCHANGED <<extVars, request, asmVars, agentVars, ctxDone, variant, llmTurn, iteration, result, err, modelCalls, executed>>

\* executeTool, the name is not in the registry: the error observation is
\* appended and nothing is executed
DispatchUnknownTool ==
    /\ pc = "DispatchingTools"
    /\ LET tc == resp.ToolCalls[tcIdx]
       IN /\ ~Get(tc.Name)
          /\ messages' = Append(messages,
                                ToolMessage(tc, UnknownToolObservation(variant, tc.Name)))
    /\ AfterToolCall(tcIdx)
    /\ UNCHANGED <<extVars, request, asmVars, agentVars, ctxDone, variant, llmTurn, resp, result, err, modelCalls, executed>>

\* executeTool, the name is resolved: tool.Execute is entered
StartTool ==
    /\ pc = "DispatchingTools"
    /\ LET tc == resp.ToolCalls[tcIdx]
       IN /\ Get(tc.Name)
          /\ executed' = Append(executed, [Name |-> tc.Name, Arguments |-> tc.Arguments])
    /\ pc' = "ToolRunning"
    /\ UNCHANGED <<extVars, request, asmVars, agentVars, ctxDone, variant, llmTurn, messages, iteration, resp, tcIdx, result, err, modelCalls>>

\* tool.Execute returns: the observation is appended
ToolReturns ==
    /\ pc = "ToolRunning"
    /\ LET tc == resp.ToolCalls[tcIdx]
       IN \E ret \in ToolOutcomes(ctxDone, tc.Name, tc.Arguments) :
             messages' = Append(messages, ToolMessage(tc, ToolObservation(ret)))
    /\ AfterToolCall(tcIdx)
    /\ UNCHANGED <<extVars, request, asmVars, agentVars, ctxDone, variant, llmTurn, resp, result, err, modelCalls, executed>>

\* the caller cancels the context while Execute waits for a model call or
\* for a tool execution
Cancel ==
    /\ pc \in {"AwaitingModel", "ToolRunning"}
    /\ ~ctxDone
    /\ ctxDone' = TRUE
    /\ UNCHANGED <<extVars, request, asmVars, agentVars, variant, llmTurn, pc, messages, iteration, resp, tcIdx, result,
                   err, modelCalls, executed>>

\* the user message the navigation agent appends after its last iteration
summaryDemand ==
    "CRITICAL: Maximum iterations reached. You MUST provide your FINAL REPORT now.\n\n"
    \o "Format your response as:\n"
    \o "- If task completed successfully: Provide your success report as instructed\n"
    \o "- If task failed: Start with \"FAILED:\" and provide detailed failure report as instructed in your prompt\n"
    \o "- If task partially completed: Start with \"PARTIAL SUCCESS:\" and explain what was done\n\n"
    \o "This is your LAST response. Do NOT call any tools. Provide text response ONLY."

\* mutant: the summary call offers the tools of the loop
SummaryRequestWithTools(msgs) == [Messages |-> msgs, Tools |-> toolDefs]

\* the request of the summary call: `Tools: nil`
SummaryRequest(msgs) == [Messages |-> msgs, Tools |-> <<>>]

\* fmt.Errorf("summary iteration failed: %w", err)
SummaryFailed(e) == "summary iteration failed: " \o e

\* navigation agent, loop head, condition false: the demand for a final
\* report is appended and the summary call is issued
RequestSummary ==
    /\ pc = "Running"
    /\ variant = "navigation"
    /\ ~LoopContinues(variant, iteration)
    /\ messages' = Append(messages, Message(RoleUser, summaryDemand, <<>>, "", ""))
    /\ modelCalls' = modelCalls + 1
    /\ request' = <<SummaryRequest(messages')>>
    /\ pc' = "AwaitingSummary"
    /\ UNCHANGED <<extVars, asmVars, agentVars, ctxDone, variant, llmTurn, iteration, resp, tcIdx, result, err, executed>>

\* the summary call returns an error
SummaryFails ==
    /\ pc = "AwaitingSummary"
    /\ result' = ""
    /\ err' = <<SummaryFailed(ChatError(ctxDone))>>
    /\ pc' = "Failed"
    /\ UNCHANGED <<extVars, request, asmVars, agentVars, ctxDone, variant, llmTurn, messages, iteration, resp, tcIdx, modelCalls, executed>>

\* the summary call returns a turn, with or without tool calls: its text is
\* the result
SummaryReturns ==
    /\ pc = "AwaitingSummary"
    /\ ~ctxDone
    /\ \E m \in {Message(RoleAssistant, text, <<>>, "", "") : text \in Answers}
                \cup {Message(RoleAssistant, thinkingText, llmTurn, "", "")} :
          /\ resp' = m
          /\ result' = m.Content
    /\ err' = <<>>
    /\ pc' = "Done"
    /\ UNCHANGED <<extVars, request, asmVars, agentVars, ctxDone, variant, llmTurn, messages, iteration, tcIdx, modelCalls, executed>>

\* the loop of the navigation agent
NavigationNext ==
    \/ Execute
    \/ CallModel
    \/ ChatFails
    \/ ChatReturnsAnswer
    \/ ChatReturnsToolCalls
    \/ DispatchUnknownTool
    \/ StartTool
    \/ ToolReturns
    \/ RequestSummary
    \/ SummaryFails
    \/ SummaryReturns

LoopNext ==
    \/ Execute
    \/ CallModel
    \/ MaxIterationsExceeded
    \/ ChatFails
    \/ ChatReturnsAnswer
    \/ ChatReturnsToolCalls
    \/ DispatchUnknownTool
    \/ StartTool
    \/ ToolReturns

(***************************************************************************)
(* The response assembler.                                                 *)
(*                                                                         *)
(* A chunk is [Choices |-> <<delta>>] or [Choices |-> <<>>]; a delta is    *)
(* [ReasoningContent, Content, ToolCalls]; a tool-call fragment is         *)
(* [Index, ID, Name, Arguments] with Index a pointer (<<>> is nil).        *)
(***************************************************************************)
\* the current ChatStream, its earlier version, and the merge of ReactAgent.Run
AsmVariants == {"ChatStream", "ChatStreamV1", "ReactAgent"}
\* the assemblers that build entity.Message with content blocks
ContentBlockVariants == {"ChatStream", "ChatStreamV1"}

ContentTypeText == "text"
ContentTypeThinking == "thinking"
ContentTypeToolUse == "tool_use"

StreamIndices == {0, 1, 2}

Fragment(index, id, name, arguments) ==
    [Index |-> index, ID |-> id, Name |-> name, Arguments |-> arguments]

Delta(reasoning, content, toolCalls) ==
    [ReasoningContent |-> reasoning, Content |-> content, ToolCalls |-> toolCalls]

\* what a fragment carries beside its index: the first chunk of a call, a
\* chunk with an argument substring only, a chunk that renames the call
FragmentBodies == {<<"call_a", "search", "{\"a\":">>,
                   <<"", "", "1}">>,
                   <<"call_b", "click", "">>}

Fragments ==
    {Fragment(ix, b[1], b[2], b[3]) : ix \in {<<>>} \cup {<<i>> : i \in StreamIndices},
                                      b \in FragmentBodies}

\* the chunks the transport can deliver
Chunks ==
    {[Choices |-> <<>>]}
    \cup {[Choices |-> <<Delta("", "", <<f>>)>>] : f \in Fragments}
    \cup {[Choices |-> <<Delta("Let me think. ", "", <<>>)>>],
          [Choices |-> <<Delta("", "Hi", <<>>)>>],
          [Choices |-> <<Delta("", "", <<Fragment(<<>>, "call_n", "lost", "{}"),
                                         Fragment(<<1>>, "call_c", "fill", "{}")>>)>>],
          [Choices |-> <<Delta("Done. ", "!", <<Fragment(<<2>>, "", "", "2}"),
                                               Fragment(<<0>>, "call_d", "open", "")>>)>>]}

\* io.EOF, the end of the stream
EOF == "EOF"
\* a receive error other than io.EOF
streamFailure == "unexpected EOF"

\* `idx := *tc.Index` without a nil check panics on a nil Index
ChecksNilIndex(v) == v = "ChatStream"

\* mutant: id and name are overwritten also by an empty value
MergeFragmentOverwrite(m, idx, tc) ==
    IF idx \in DOMAIN m
    THEN [m EXCEPT ![idx] =
            [ID |-> tc.ID, Name |-> tc.Name, Arguments |-> @.Arguments \o tc.Arguments]]
    ELSE [i \in DOMAIN m \cup {idx} |->
            IF i = idx THEN ToolCall(tc.ID, tc.Name, tc.Arguments) ELSE m[i]]

\* the accumulator after one fragment with index idx was merged into m
MergeFragment(m, idx, tc) ==
    IF idx \in DOMAIN m
    THEN [m EXCEPT ![idx] =
            [ID |-> IF tc.ID # "" THEN tc.ID ELSE @.ID,
             Name |-> IF tc.Name # "" THEN tc.Name ELSE @.Name,
             Arguments |-> @.Arguments \o tc.Arguments]]
    ELSE [i \in DOMAIN m \cup {idx} |->
            IF i = idx THEN ToolCall(tc.ID, tc.Name, tc.Arguments) ELSE m[i]]

\* `for _, tc := range delta.ToolCalls`: the map after the fragments were
\* merged in order, and whether the loop panicked on a nil Index
RECURSIVE MergeToolCalls(_, _, _)
MergeToolCalls(v, m, frags) ==
    IF frags = <<>> THEN [map |-> m, panicked |-> FALSE]
    ELSE LET tc == Head(frags)
         IN IF tc.Index = <<>>
            THEN IF ChecksNilIndex(v)
                 THEN MergeToolCalls(v, m, Tail(frags))
                 ELSE [map |-> m, panicked |-> TRUE]
            ELSE MergeToolCalls(v, MergeFragment(m, tc.Index[1], tc), Tail(frags))

RECURSIVE SortInts(_)
SortInts(S) ==
    IF S = {} THEN <<>>
    ELSE LET lo == CHOOSE x \in S : \A y \in S : x <= y
         IN <<lo>> \o SortInts(S \ {lo})

\* mutant: the keys are emitted unsorted, here from the largest to the smallest
EmittedIndicesUnsorted(v, m) ==
    LET asc == SortInts(DOMAIN m)
    IN [k \in 1..Len(asc) |-> asc[Len(asc) + 1 - k]]

\* the stream indices whose tool call is emitted at stream end, in emission
\* order: the sorted keys (ChatStream), or the keys found by
\* `for i := 0; i < len(toolCallsMap); i++` (earlier ChatStream, ReactAgent)
EmittedIndices(v, m) ==
    IF v = "ChatStream"
    THEN SortInts(DOMAIN m)
    ELSE SelectSeq([k \in 1..Cardinality(DOMAIN m) |-> k - 1], LAMBDA i : i \in DOMAIN m)

ContentBlock(type, text, thinking, toolUse) ==
    [Type |-> type, Text |-> text, Thinking |-> thinking, ToolUse |-> toolUse]

\* mutant: the reasoning is put in front of the text of the text block
LeadingBlocksMerged(thinking, text) ==
    IF thinking \o text # ""
    THEN <<ContentBlock(ContentTypeText, thinking \o text, "", <<>>)>>
    ELSE <<>>

\* the reasoning block and the text block of the assembled message
LeadingBlocks(thinking, text) ==
    (IF thinking # "" THEN <<ContentBlock(ContentTypeThinking, "", thinking, <<>>)>> ELSE <<>>)
    \o (IF text # "" THEN <<ContentBlock(ContentTypeText, text, "", <<>>)>> ELSE <<>>)

\* the message returned at stream end
AssembledMessage(v, m, ixs, thinking, text) ==
    [Role |-> RoleAssistant,
     Content |-> text,
     ContentBlocks |->
        IF v \in ContentBlockVariants
        THEN LeadingBlocks(thinking, text)
             \o [k \in 1..Len(ixs) |-> ContentBlock(ContentTypeToolUse, "", "", <<m[ixs[k]]>>)]
        ELSE <<>>,
     ToolCalls |-> [k \in 1..Len(ixs) |-> m[ixs[k]]],
     ToolCallID |-> "",
     Name |-> ""]

AsmIdle ==
    /\ asmVariant = "ChatStream"
    /\ asmPc = "idle"
    /\ received = <<>>
    /\ toolCallsMap = <<>>
    /\ thinkingContent = ""
    /\ textContent = ""
    /\ indices = <<>>
    /\ recvErr = <<>>
    /\ finalMessage = <<>>

\* the stream was created; the accumulators are empty
AsmInit ==
    /\ asmVariant \in AsmVariants
    /\ asmPc = "recv"
    /\ received = <<>>
    /\ toolCallsMap = <<>>
    /\ thinkingContent = ""
    /\ textContent = ""
    /\ indices = <<>>
    /\ recvErr = <<>>
    /\ finalMessage = <<>>

\* stream.Recv returns a chunk without choices: it is skipped
RecvNoChoices ==
    /\ asmPc = "recv"
    /\ Len(received) < MaxChunks
    /\ \E chunk \in Chunks :
        /\ chunk.Choices = <<>>
        /\ received' = Append(received, chunk)
    /\ UNCHANGED <<extVars, loopVars, agentVars, asmVariant, asmPc, toolCallsMap, thinkingContent,
                   textContent, indices, recvErr, finalMessage>>

\* stream.Recv returns a chunk: its delta is accumulated
RecvDelta ==
    /\ asmPc = "recv"
    /\ Len(received) < MaxChunks
    /\ \E chunk \in Chunks :
        /\ chunk.Choices # <<>>
        /\ received' = Append(received, chunk)
        /\ LET delta == chunk.Choices[1]
               merged == MergeToolCalls(asmVariant, toolCallsMap, delta.ToolCalls)
           IN /\ thinkingContent' = IF asmVariant \in ContentBlockVariants
                                    THEN thinkingContent \o delta.ReasoningContent
                                    ELSE thinkingContent
              /\ textContent' = textContent \o delta.Content
              /\ toolCallsMap' = merged.map
              /\ asmPc' = IF merged.panicked THEN "panic" ELSE "recv"
    /\ UNCHANGED <<extVars, loopVars, agentVars, asmVariant, indices, recvErr, finalMessage>>

\* the message is assembled from the accumulators
Assemble ==
    /\ indices' = EmittedIndices(asmVariant, toolCallsMap)
    /\ finalMessage' = <<AssembledMessage(asmVariant, toolCallsMap, indices',
                                          thinkingContent, textContent)>>
    /\ asmPc' = "done"

\* stream.Recv returns io.EOF
RecvEOF ==
    /\ asmPc = "recv"
    /\ recvErr' = <<EOF>>
    /\ Assemble
    /\ UNCHANGED <<extVars, loopVars, agentVars, asmVariant, received, toolCallsMap, thinkingContent, textContent>>

\* stream.Recv returns another error: ChatStream returns it, ReactAgent.Run
\* leaves the receive loop as at the end of the stream
RecvError ==
    /\ asmPc = "recv"
    /\ recvErr' = <<streamFailure>>
    /\ IF asmVariant = "ReactAgent"
       THEN Assemble
       ELSE /\ asmPc' = "error"
            /\ UNCHANGED <<indices, finalMessage>>
    /\ UNCHANGED <<extVars, loopVars, agentVars, asmVariant, received, toolCallsMap, thinkingContent, textContent>>

AsmNext ==
    \/ RecvNoChoices
    \/ RecvDelta
    \/ RecvEOF
    \/ RecvError

(***************************************************************************)
(* The tool registry (ToolRegistryImpl) and the sub-agents' use of it      *)
(* (filterTools, executeTool of the form, extraction and navigation        *)
(* agents, which are constructed over one shared registry).                *)
(*                                                                         *)
(* A tool is [Name, Description, Parameters, Returns], Returns being what  *)
(* its Execute returns; the registry is a function from names to tools.    *)
(***************************************************************************)
ToolBrowserNavigate == "browser_navigate"
ToolBrowserClick == "browser_click"
ToolBrowserFill == "browser_fill"
ToolBrowserScroll == "browser_scroll"
ToolBrowserPressEnter == "browser_press_enter"
ToolBrowserObserve == "browser_observe"
ToolBrowserQueryElements == "browser_query_elements"
ToolBrowserSearch == "browser_search"
ToolUserAskQuestion == "user_ask_question"
ToolUserWaitAction == "user_wait_action"

\* the agents that send a filtered tool list to the model
ToolViewAgents == SubAgents \cup {"navigation"}

\* the local `allowedTools` of filterTools
allowedTools(agent) ==
    CASE agent = "form" ->
            <<ToolBrowserFill, ToolBrowserClick, ToolBrowserPressEnter, ToolBrowserObserve,
              ToolBrowserSearch, ToolUserWaitAction, ToolUserAskQuestion>>
      [] agent = "extraction" ->
            <<ToolBrowserQueryElements, ToolBrowserSearch, ToolBrowserObserve, ToolBrowserScroll>>
      [] agent = "navigation" ->
            <<ToolBrowserNavigate, ToolBrowserObserve, ToolBrowserScroll, ToolBrowserSearch>>

Tool(name, description, parameters, returns) ==
    [Name |-> name, Description |-> description, Parameters |-> parameters, Returns |-> returns]

\* the tools that get registered; browser_fill is registered in two versions
RegistrableTools ==
    {Tool(ToolBrowserNavigate, "Navigate to a URL", "{\"url\":\"string\"}", "Navigated"),
     Tool(ToolBrowserFill, "Fill a field", "{\"selector\":\"string\"}", "Filled"),
     Tool(ToolBrowserFill, "Fill a field with a text", "{\"selector\":\"string\",\"text\":\"string\"}",
          "Filled with the text"),
     Tool(ToolBrowserObserve, "Observe the page", "{}", "Page: 3 links")}

\* the tool names a model turn of a sub-agent carries: the registrable names
\* and a name that is never registered
CalledNames == {t.Name : t \in RegistrableTools} \cup {ToolBrowserClick}

\* mutant: a name that is taken keeps its tool
RegisterFirstWins(m, tool) ==
    IF tool.Name \in DOMAIN m THEN m
    ELSE [n \in DOMAIN m \cup {tool.Name} |-> IF n = tool.Name THEN tool ELSE m[n]]

\* `r.tools[tool.Name()] = tool`
Register(m, tool) ==
    [n \in DOMAIN m \cup {tool.Name} |-> IF n = tool.Name THEN tool ELSE m[n]]

\* `tool, ok := r.tools[name]`: the tool as a pointer, <<>> when ok is false
RegistryGet(m, name) == IF name \in DOMAIN m THEN <<m[name]>> ELSE <<>>

\* the orders in which `for ... := range r.tools` can visit the keys: a Go
\* map is iterated in an unspecified order that changes from one loop to
\* the next
RECURSIVE RangeOrders(_)
RangeOrders(S) ==
    IF S = {} THEN {<<>>}
    ELSE UNION {{<<x>> \o o : o \in RangeOrders(S \ {x})} : x \in S}

entityToolDefinition(tool) ==
    [Name |-> tool.Name, Description |-> tool.Description, Parameters |-> tool.Parameters]

\* what All() can return
All(m) == {[k \in DOMAIN o |-> m[o[k]]] : o \in RangeOrders(DOMAIN m)}

\* what Definitions() can return
Definitions(m) == {[k \in DOMAIN o |-> entityToolDefinition(m[o[k]])] : o \in RangeOrders(DOMAIN m)}

\* mutant: the allow-list is the outer loop, so its order decides
filterToolsByAllowList(agent, allTools) ==
    LET allowed == allowedTools(agent)
        hit(a) == SelectSeq(allTools, LAMBDA t : t.Name = a)
        RECURSIVE collect(_)
        collect(i) == IF i > Len(allowed) THEN <<>> ELSE hit(allowed[i]) \o collect(i + 1)
    IN collect(1)

\* filterTools, given what a.tools.Definitions() returned
filterTools(agent, allTools) ==
    LET allowed == allowedTools(agent)
    IN SelectSeq(allTools, LAMBDA t : \E i \in DOMAIN allowed : t.Name = allowed[i])

\* `a.tools.Get(entity.ToolName(tc.Name))` of executeTool
executeToolGet(agent, m, name) == RegistryGet(m, name)

\* the registry is empty and nothing was called
RegIdle ==
    /\ tools = <<>>
    /\ registered = <<>>
    /\ listings = <<>>
    /\ views = <<>>
    /\ toolRuns = <<>>

\* number of calls made on the registry and on the sub-agents
RegistryCalls == Len(registered) + Len(listings) + Len(views) + Len(toolRuns)

\* Register(tool)
RegisterTool ==
    /\ RegistryCalls < MaxRegistryCalls
    /\ \E tool \in RegistrableTools :
         /\ tools' = Register(tools, tool)
         /\ registered' = Append(registered, tool)
    /\ UNCHANGED <<loopVars, asmVars, agentVars, orchVars, promptVars, convVars, runVars, browserVars,
                   listings, views, toolRuns>>

\* All() is called
ListAll ==
    /\ RegistryCalls < MaxRegistryCalls
    /\ \E res \in All(tools) :
         listings' = Append(listings, [Op |-> "All", Registered |-> registered, Result |-> res])
    /\ UNCHANGED <<loopVars, asmVars, agentVars, orchVars, promptVars, convVars, runVars, browserVars,
                   tools, registered, views, toolRuns>>

\* Definitions() is called
ListDefinitions ==
    /\ RegistryCalls < MaxRegistryCalls
    /\ \E res \in Definitions(tools) :
         listings' = Append(listings, [Op |-> "Definitions", Registered |-> registered,
                                       Result |-> res])
    /\ UNCHANGED <<loopVars, asmVars, agentVars, orchVars, promptVars, convVars, runVars, browserVars,
                   tools, registered, views, toolRuns>>

\* a sub-agent builds the tool list of its model calls
FilterTools ==
    /\ RegistryCalls < MaxRegistryCalls
    /\ \E agent \in ToolViewAgents, allTools \in Definitions(tools) :
         views' = Append(views, [Agent |-> agent, AllTools |-> allTools,
                                 Filtered |-> filterTools(agent, allTools)])
    /\ UNCHANGED <<loopVars, asmVars, agentVars, orchVars, promptVars, convVars, runVars, browserVars,
                   tools, registered, listings, toolRuns>>

\* executeTool of a sub-agent, for a tool call of the model's turn
SubAgentExecuteTool ==
    /\ RegistryCalls < MaxRegistryCalls
    /\ \E agent \in ToolViewAgents, name \in CalledNames :
         LET got == executeToolGet(agent, tools, name)
         IN toolRuns' = Append(toolRuns,
               [Agent |-> agent, Name |-> name, Executed |-> got # <<>>,
                Observation |->
                   IF got = <<>> THEN UnknownToolObservation(agent, name)
                   ELSE ToolObservation([result |-> got[1].Returns, err |-> <<>>])])
    /\ UNCHANGED <<loopVars, asmVars, agentVars, orchVars, promptVars, convVars, runVars, browserVars,
                   tools, registered, listings, views>>

RegistryNext ==
    \/ RegisterTool
    \/ ListAll
    \/ ListDefinitions
    \/ FilterTools
    \/ SubAgentExecuteTool

(***************************************************************************)
(* Message conversion of the model port (convertResponseMessage,           *)
(* convertMessages) and the assembly at the end of ChatStream.             *)
(*                                                                         *)
(* An openai.ChatCompletionMessage is [Role, Content, ToolCalls,           *)
(* ToolCallID, Name], its tool calls [ID, Type, Function]; an              *)
(* entity.Message has the fields of AssembledMessage. The address a        *)
(* ToolUse pointer holds is kept beside the message, in Refs.              *)
(***************************************************************************)
ToolTypeFunction == "function"

openaiToolCall(id, name, arguments) ==
    [ID |-> id, Type |-> ToolTypeFunction, Function |-> [Name |-> name, Arguments |-> arguments]]

openaiMessage(role, content, toolCalls, toolCallID, name) ==
    [Role |-> role, Content |-> content, ToolCalls |-> toolCalls,
     ToolCallID |-> toolCallID, Name |-> name]

entityMessage(role, content, blocks, toolCalls, toolCallID, name) ==
    [Role |-> role, Content |-> content, ContentBlocks |-> blocks, ToolCalls |-> toolCalls,
     ToolCallID |-> toolCallID, Name |-> name]

\* `toolCall := entity.ToolCall{...}` of the k-th iteration
responseToolCall(msg, k) ==
    ToolCall(msg.ToolCalls[k].ID, msg.ToolCalls[k].Function.Name,
             msg.ToolCalls[k].Function.Arguments)

\* mutant: `toolCall` is one variable declared before the loop, so that every
\* block points to it and shows the call assigned last
responseToolUseShared(msg, k) ==
    [ref |-> <<"toolCall", 1>>, value |-> responseToolCall(msg, Len(msg.ToolCalls))]

\* `ToolUse: &toolCall` of the k-th iteration: the variable is declared in the
\* loop body, so every iteration has its own
responseToolUse(msg, k) ==
    [ref |-> <<"toolCall", k>>, value |-> responseToolCall(msg, k)]

\* convertResponseMessage
convertResponseMessage(msg) ==
    entityMessage(msg.Role, msg.Content,
        (IF msg.Content # "" THEN <<ContentBlock(ContentTypeText, msg.Content, "", <<>>)>>
         ELSE <<>>)
        \o [k \in DOMAIN msg.ToolCalls |->
              ContentBlock(ContentTypeToolUse, "", "", <<responseToolUse(msg, k).value>>)],
        [k \in DOMAIN msg.ToolCalls |-> responseToolCall(msg, k)],
        "", "")

\* the addresses in the ToolUse fields of convertResponseMessage's result
responseToolUseRefs(msg) == [k \in DOMAIN msg.ToolCalls |-> responseToolUse(msg, k).ref]

\* the addresses in the ToolUse fields of the message ChatStream assembles:
\* `tc := toolCallsMap[idx]` is the pointer the map holds for idx
streamToolUseRefs(ixs) == [k \in DOMAIN ixs |-> <<"toolCallsMap", ixs[k]>>]

\* mutant: a thinking block is wrapped without the line breaks
blockContentInline(block) ==
    IF block.Type = ContentTypeThinking /\ block.Thinking # ""
    THEN "<thinking>" \o block.Thinking \o "</thinking>"
    ELSE IF block.Type = ContentTypeText /\ block.Text # ""
    THEN block.Text
    ELSE ""

\* what one block adds to fullContent
blockContent(block) ==
    IF block.Type = ContentTypeThinking /\ block.Thinking # ""
    THEN "<thinking>\n" \o block.Thinking \o "\n</thinking>\n"
    ELSE IF block.Type = ContentTypeText /\ block.Text # ""
    THEN block.Text
    ELSE ""

\* `for _, block := range msg.ContentBlocks`: fullContent after the blocks
\* from position k on were added to acc
RECURSIVE fullContent(_, _, _)
fullContent(blocks, k, acc) ==
    IF k > Len(blocks) THEN acc
    ELSE fullContent(blocks, k + 1, acc \o blockContent(blocks[k]))

\* the body of the loop of convertMessages
convertMessage(msg) ==
    LET full == IF Len(msg.ContentBlocks) > 0 THEN fullContent(msg.ContentBlocks, 1, "") ELSE ""
    IN openaiMessage(msg.Role,
                     IF full # "" THEN full ELSE msg.Content,
                     [k \in DOMAIN msg.ToolCalls |->
                        openaiToolCall(msg.ToolCalls[k].ID, msg.ToolCalls[k].Name,
                                       msg.ToolCalls[k].Arguments)],
                     msg.ToolCallID, msg.Name)

\* convertMessages
convertMessages(msgs) == [i \in DOMAIN msgs |-> convertMessage(msgs[i])]

\* the tool calls of a response; two calls of one turn can be equal in every field
ResponseCalls == {openaiToolCall("call_123", "navigate", "{\"url\":\"https://example.com\"}"),
                  openaiToolCall("call_124", "click", "{}"),
                  openaiToolCall("", "click", "{}")}

\* the messages Chat's response carries
ResponseMessages ==
    {openaiMessage(RoleAssistant, c, tcs, "", "") :
        c \in {"", "Hello, world!"}, tcs \in SeqsUpTo(ResponseCalls, MaxCalls)}

\* the accumulators ChatStream can hold at the end of a stream
StreamCalls == {ToolCall("call_a", "search", "{\"a\":1}"), ToolCall("", "", "2}")}
StreamMaps == UNION {[S -> StreamCalls] : S \in SUBSET StreamIndices}
StreamTexts == {"", "Hi"}
StreamThoughts == {"", "Let me think. "}

\* the content blocks of the messages given to convertMessages
OutboundBlocks ==
    {ContentBlock(ContentTypeThinking, "", "Let me think about this...", <<>>),
     ContentBlock(ContentTypeThinking, "", "", <<>>),
     ContentBlock(ContentTypeText, "Hi there", "", <<>>),
     ContentBlock(ContentTypeText, "", "", <<>>),
     ContentBlock(ContentTypeText, "", "stray thought", <<>>),
     ContentBlock(ContentTypeToolUse, "", "", <<ToolCall("call_1", "echo", "hi")>>)}

\* the messages of a transcript, block lists apart
OutboundShapes ==
    {entityMessage(RoleUser, "Hello", <<>>, <<>>, "", ""),
     entityMessage(RoleAssistant, "Hi there", <<>>, <<>>, "", ""),
     entityMessage(RoleAssistant, "", <<>>, <<>>, "", ""),
     entityMessage(RoleAssistant, "Response text", <<>>,
                   <<ToolCall("call_1", "echo", "hi"), ToolCall("call_3", "boom", "x")>>, "", ""),
     entityMessage(RoleTool, "hi", <<>>, <<>>, "call_1", "echo")}

OutboundMessages ==
    {[m EXCEPT !.ContentBlocks = b] : m \in OutboundShapes, b \in SeqsUpTo(OutboundBlocks, MaxBlocks)}

\* no conversion has run
ConvIdle ==
    /\ convPc = "idle"
    /\ convIn = <<>>
    /\ convOut = <<>>

\* Chat converts the message of the response
ConvertResponse ==
    /\ convPc = "idle"
    /\ \E msg \in ResponseMessages :
         /\ convIn' = msg
         /\ convOut' = [Message |-> convertResponseMessage(msg), Refs |-> responseToolUseRefs(msg)]
    /\ convPc' = "convertResponseMessage"
    /\ UNCHANGED <<loopVars, asmVars, agentVars, orchVars, promptVars, regVars, runVars, browserVars>>

\* ChatStream assembles the message at the end of the stream
AssembleStream ==
    /\ convPc = "idle"
    /\ \E v \in ContentBlockVariants, m \in StreamMaps,
          thinking \in StreamThoughts, text \in StreamTexts :
         LET ixs == EmittedIndices(v, m)
         IN /\ convIn' = [Variant |-> v, toolCallsMap |-> m, thinkingContent |-> thinking,
                          textContent |-> text]
            /\ convOut' = [Message |-> AssembledMessage(v, m, ixs, thinking, text),
                           Refs |-> streamToolUseRefs(ixs)]
    /\ convPc' = "ChatStream"
    /\ UNCHANGED <<loopVars, asmVars, agentVars, orchVars, promptVars, regVars, runVars, browserVars>>

\* Chat / ChatStream convert the messages of the request: a message of the
\* transcript, or, in the call after the port returned a message, a user
\* message and that message
ConvertMessages ==
    /\ convPc # "convertMessages"
    /\ \E msgs \in IF convPc = "idle"
                    THEN {<<m>> : m \in OutboundMessages}
                    ELSE {<<entityMessage(RoleUser, "Hello", <<>>, <<>>, "", ""),
                            convOut.Message>>} :
         /\ convIn' = msgs
         /\ convOut' = convertMessages(msgs)
    /\ convPc' = "convertMessages"
    /\ UNCHANGED <<loopVars, asmVars, agentVars, orchVars, promptVars, regVars, runVars, browserVars>>

ConvNext ==
    \/ ConvertResponse
    \/ AssembleStream
    \/ ConvertMessages

(***************************************************************************)
(* Successive invocations on one object: executor.UseCase.Execute, whose   *)
(* transcript is the local `messages`, and ReactAgent.Run, whose           *)
(* transcript is the field a.messages that NewReactAgent initialises.      *)
(***************************************************************************)
RunObjects == {"UseCase", "ReactAgent"}

\* the system message NewReactAgent puts in a.messages (its text in English)
reactSystemPrompt == "You are an autonomous browser agent. Think step by step and use the tools."

\* the tasks of the successive invocations
RunTasks == <<"first task", "second task", "third task", "fourth task">>

\* the turns of the model: a final answer, a call of a tool, a call of an
\* unknown tool
RunAnswers == {finalText}
RunTurns == {<<ToolCall("call_1", "echo", "hi")>>, <<ToolCall("call_2", "ghost", "{}")>>}

\* the system message and the user message of an object
RunSystemMessage(object) ==
    IF object = "ReactAgent"
    THEN openaiMessage(RoleSystem, reactSystemPrompt, <<>>, "", "")
    ELSE Message(RoleSystem, systemPrompt, <<>>, "", "")

RunUserMessage(object, text) ==
    IF object = "ReactAgent"
    THEN openaiMessage(RoleUser, text, <<>>, "", "")
    ELSE Message(RoleUser, text, <<>>, "", "")

\* the assistant message of a turn
RunAssistantMessage(object, text, calls) ==
    IF object = "ReactAgent"
    THEN openaiMessage(RoleAssistant, text,
                       [k \in DOMAIN calls |->
                          openaiToolCall(calls[k].ID, calls[k].Name, calls[k].Arguments)],
                       "", "")
    ELSE Message(RoleAssistant, text, calls, "", "")

\* the tool messages of a turn, one for each call in order
RunToolMessages(object, calls) ==
    [k \in DOMAIN calls |->
       LET tc == calls[k]
           obs == IF Get(tc.Name)
                  THEN ToolObservation(ToolExecute(tc.Name, tc.Arguments))
                  ELSE UnknownToolObservation("executor", tc.Name)
       IN IF object = "ReactAgent"
          THEN openaiMessage(RoleTool, obs, <<>>, tc.ID, tc.Name)
          ELSE ToolMessage(tc, obs)]

\* the transcript at the start of an invocation: Run appends the task to
\* a.messages, Execute builds a new slice
StartTranscript(object, kept, text) ==
    IF object = "ReactAgent"
    THEN Append(kept, RunUserMessage(object, text))
    ELSE <<RunSystemMessage(object), RunUserMessage(object, text)>>

\* what is left of the transcript when the invocation returns: the field
\* a.messages stays, the local `messages` is gone
KeptTranscript(object, transcript) ==
    IF object = "ReactAgent" THEN transcript ELSE <<>>

\* no object was built
RunIdle ==
    /\ runObject = "UseCase"
    /\ runPc = "idle"
    /\ runMessages = <<>>
    /\ invocation = 0
    /\ runIter = 0
    /\ requests = <<>>

\* the object was built by NewReactAgent or by executor.New
RunsStart ==
    /\ runObject \in RunObjects
    /\ runPc = "idle"
    /\ runMessages = IF runObject = "ReactAgent" THEN <<RunSystemMessage(runObject)>> ELSE <<>>
    /\ invocation = 0
    /\ runIter = 0
    /\ requests = <<>>

\* Execute / Run is called with the next task
Invoke ==
    /\ runPc \in {"idle", "Returned"}
    /\ invocation < MaxInvocations
    /\ invocation' = invocation + 1
    /\ runMessages' = StartTranscript(runObject, runMessages, RunTasks[invocation'])
    /\ runIter' = 0
    /\ runPc' = "Running"
    /\ UNCHANGED <<loopVars, asmVars, agentVars, orchVars, promptVars, regVars, convVars, browserVars,
                   runObject, requests>>

\* the loop issues a model call with the transcript
RunCallModel ==
    /\ runPc = "Running"
    /\ runIter < MaxTurns
    /\ runIter' = runIter + 1
    /\ requests' = Append(requests, [Invocation |-> invocation,
                                     Task |-> RunTasks[invocation],
                                     Messages |-> runMessages])
    /\ runPc' = "AwaitingModel"
    /\ UNCHANGED <<loopVars, asmVars, agentVars, orchVars, promptVars, regVars, convVars, browserVars,
                   runObject, runMessages, invocation>>

\* the model call fails: the invocation returns the error
RunModelFails ==
    /\ runPc = "AwaitingModel"
    /\ runMessages' = KeptTranscript(runObject, runMessages)
    /\ runPc' = "Returned"
    /\ UNCHANGED <<loopVars, asmVars, agentVars, orchVars, promptVars, regVars, convVars, browserVars,
                   runObject, invocation, runIter, requests>>

\* the turn has no tool calls: it is appended and the invocation returns it
RunModelAnswers ==
    /\ runPc = "AwaitingModel"
    /\ \E text \in RunAnswers :
         runMessages' = KeptTranscript(runObject,
                           Append(runMessages, RunAssistantMessage(runObject, text, <<>>)))
    /\ runPc' = "Returned"
    /\ UNCHANGED <<loopVars, asmVars, agentVars, orchVars, promptVars, regVars, convVars, browserVars,
                   runObject, invocation, runIter, requests>>

\* the turn has tool calls: it is appended, the calls are dispatched and
\* their observations appended
RunModelCallsTools ==
    /\ runPc = "AwaitingModel"
    /\ \E calls \in RunTurns :
         runMessages' = Append(runMessages, RunAssistantMessage(runObject, thinkingText, calls))
                        \o RunToolMessages(runObject, calls)
    /\ runPc' = "Running"
    /\ UNCHANGED <<loopVars, asmVars, agentVars, orchVars, promptVars, regVars, convVars, browserVars,
                   runObject, invocation, runIter, requests>>

RunsNext ==
    \/ Invoke
    \/ RunCallModel
    \/ RunModelFails
    \/ RunModelAnswers
    \/ RunModelCallsTools

\* no agent registry was built and no prompt generated
PromptIdle ==
    /\ agentRegistry = {}
    /\ promptTemplate = ""
    /\ listed = <<>>
    /\ promptOut = <<>>

\* no browser adapter was built
BrowserIdle ==
    /\ closed = FALSE
    /\ browser = <<>>
    /\ launcher = <<>>
    /\ page = <<>>
    /\ inflight = <<>>
    /\ browserLog = <<>>

\* beside the loop, the assembler and the evaluated sub-agent nothing runs
ExtIdle == RegIdle /\ ConvIdle /\ RunIdle /\ BrowserIdle /\ DelegateIdle /\ PromptIdle

(***************************************************************************)
(* The evaluator (Evaluator.Evaluate, parseEvaluationResponse).            *)
(*                                                                         *)
(* entity.EvaluationResult is [Success, Confidence, Issues, Feedback,      *)
(* ShouldRetry]; Confidence is kept as its decimal text.                   *)
(***************************************************************************)
maxRetries == 2

EvaluationResult(success, confidence, issues, feedback, shouldRetry) ==
    [Success |-> success, Confidence |-> confidence, Issues |-> issues,
     Feedback |-> feedback, ShouldRetry |-> shouldRetry]

\* JSON texts of verdicts
jsonGood == "{\"success\":true,\"confidence\":0.9,\"issues\":[\"minor issue\"],\"feedback\":\"good job\",\"should_retry\":false}"
jsonGoodRetry == "{\"success\":true,\"confidence\":0.2,\"issues\":[\"slow\"],\"feedback\":\"try again\",\"should_retry\":true}"
jsonObserve == "{\"success\":false,\"confidence\":0.3,\"issues\":[\"selectors missing\",\"no data extracted\"],\"feedback\":\"Need to use observe first\",\"should_retry\":true}"
jsonSubmit == "{\"success\":false,\"confidence\":0.4,\"issues\":[\"not submitted\"],\"feedback\":\"Click submit\",\"should_retry\":true}"
jsonGiveUp == "{\"success\":false,\"confidence\":0.1,\"issues\":[\"page is gone\"],\"feedback\":\"nothing to do\",\"should_retry\":false}"
jsonEmpty == "{}"

\* json.Unmarshal into entity.EvaluationResult: the texts that decode, with
\* the value they decode to (an absent field keeps its zero value); every
\* other text of the model is not the JSON text of an object
Decodable ==
    {<<jsonGood, EvaluationResult(TRUE, "0.9", <<"minor issue">>, "good job", FALSE)>>,
     <<jsonGoodRetry, EvaluationResult(TRUE, "0.2", <<"slow">>, "try again", TRUE)>>,
     <<jsonObserve, EvaluationResult(FALSE, "0.3", <<"selectors missing", "no data extracted">>,
                                     "Need to use observe first", TRUE)>>,
     <<jsonSubmit, EvaluationResult(FALSE, "0.4", <<"not submitted">>, "Click submit", TRUE)>>,
     <<jsonGiveUp, EvaluationResult(FALSE, "0.1", <<"page is gone">>, "nothing to do", FALSE)>>,
     <<jsonEmpty, EvaluationResult(FALSE, "0", <<>>, "", FALSE)>>}

Unmarshal(text) ==
    IF \E d \in Decodable : d[1] = text
    THEN [result |-> <<(CHOOSE d \in Decodable : d[1] = text)[2]>>, err |-> <<>>]
    ELSE [result |-> <<>>, err |-> <<"failed to parse JSON">>]

\* the replies of the judge
JudgeReplies ==
    {jsonGood, jsonGoodRetry, jsonSubmit, jsonGiveUp,
     "Here's my evaluation:\n\n" \o jsonObserve \o "\n\nHope this helps!",
     "  " \o jsonEmpty \o "\n",
     "This is not JSON at all",
     "{\"success\":false",
     "success: false}",
     "{not json}",
     jsonGiveUp \o " or " \o jsonSubmit,
     "}{",
     "done } next {"}

\* the character at the 0-based position i of the text
CharAt(text, i) == SubSeq(text, i + 1, i + 1)

IsSpace(c) == c \in {" ", "\n", "\t", "\r"}

\* strings.TrimSpace
RECURSIVE TrimSpace(_)
TrimSpace(text) ==
    IF text = "" THEN ""
    ELSE IF IsSpace(CharAt(text, 0)) THEN TrimSpace(SubSeq(text, 2, Len(text)))
    ELSE IF IsSpace(CharAt(text, Len(text) - 1)) THEN TrimSpace(SubSeq(text, 1, Len(text) - 1))
    ELSE text

\* strings.Index(text, c) for a one-byte c: 0-based, -1 when absent
Index(text, c) ==
    LET hits == {i \in 0..(Len(text) - 1) : CharAt(text, i) = c}
    IN IF hits = {} THEN -1 ELSE CHOOSE i \in hits : \A j \in hits : i <= j

\* strings.LastIndex(text, c) for a one-byte c
LastIndex(text, c) ==
    LET hits == {i \in 0..(Len(text) - 1) : CharAt(text, i) = c}
    IN IF hits = {} THEN -1 ELSE CHOOSE i \in hits : \A j \in hits : j <= i

\* parseEvaluationResponse: the verdict, or an error, or the run-time panic
\* of the slice expression response[start : end+1] when start > end+1
parseEvaluationResponse(reply) ==
    LET response == TrimSpace(reply)
        start == Index(response, "{")
        end == LastIndex(response, "}")
    IN IF start = -1 \/ end = -1
       THEN [result |-> <<>>, err |-> <<"no JSON found in response">>, panicked |-> FALSE]
       ELSE IF start > end + 1
       THEN [result |-> <<>>, err |-> <<>>, panicked |-> TRUE]
       ELSE LET decoded == Unmarshal(SubSeq(response, start + 1, end + 1))
            IN IF decoded.err # <<>>
               THEN [result |-> <<>>, err |-> <<"failed to parse JSON: " \o decoded.err[1]>>,
                     panicked |-> FALSE]
               ELSE [result |-> decoded.result, err |-> <<>>, panicked |-> FALSE]

\* mutant: the default verdict is a failure
DefaultVerdictFailed == EvaluationResult(FALSE, "0.5", <<>>, "", FALSE)

\* the verdict Evaluate returns when the reply cannot be parsed
DefaultVerdict == EvaluationResult(TRUE, "0.5", <<>>, "", FALSE)

\* Evaluate once the judge has replied: (*EvaluationResult, error), or a panic
Evaluate(reply) ==
    LET parsed == parseEvaluationResponse(reply)
    IN IF parsed.panicked THEN [result |-> <<>>, err |-> <<>>, panicked |-> TRUE]
       ELSE IF parsed.err # <<>>
       THEN [result |-> <<DefaultVerdict>>, err |-> <<>>, panicked |-> FALSE]
       ELSE [result |-> parsed.result, err |-> <<>>, panicked |-> FALSE]

\* Agent.Execute has not been called
AgentIdle ==
    /\ agentPc = "idle"
    /\ retry = 0
    /\ taskText = ""
    /\ lastResult = ""
    /\ agentResult = ""
    /\ agentErr = <<>>
    /\ attempts = <<>>
    /\ results = <<>>
    /\ evaluations = <<>>

(***************************************************************************)
(* The evaluated sub-agent: Agent.Execute of the form and extraction       *)
(* agents. An attempt is one run of executeWithIterations, which is the    *)
(* task-execution loop of the variant.                                     *)
(***************************************************************************)
\* fmt.Sprintf("%d. %s\n", i+1, issue), i being the index of the range loop
IssueLineFromZero(i, issue) == ToString(i) \o ". " \o issue \o "\n"

IssueLine(i, issue) == ToString(i + 1) \o ". " \o issue \o "\n"

RECURSIVE IssueLines(_, _)
IssueLines(issues, i) ==
    IF i >= Len(issues) THEN ""
    ELSE IssueLine(i, issues[i + 1]) \o IssueLines(issues, i + 1)

\* the task text of the next attempt
RetryTask(originalTask, eval) ==
    originalTask \o "\n\nPREVIOUS ATTEMPT FEEDBACK:\n" \o eval.Feedback
                 \o "\n\nIssues to fix:\n" \o IssueLines(eval.Issues, 0)

\* mutant: a retry is made whenever the verdict recommends one
DecisionOnRecommendation(eval, r) ==
    IF eval.ShouldRetry /\ r # maxRetries THEN "retry" ELSE "return"

\* mutant: the retry budget is not looked at
DecisionUnbounded(eval, r) ==
    IF eval.Success THEN "return"
    ELSE IF ~eval.ShouldRetry THEN "return"
    ELSE "retry"

\* what Execute does with the verdict on attempt number r
Decision(eval, r) ==
    IF eval.Success THEN "return"
    ELSE IF ~eval.ShouldRetry \/ r = maxRetries THEN "return"
    ELSE "retry"

\* mutant: the judge is given the task text of the current attempt
CriteriaOfAttempt == [TaskDescription |-> taskText, ActualResult |-> result, AgentType |-> variant]

\* mutant: an unsuccessful verdict is reported as an error
VerdictReturnStrict(res, eval) ==
    IF eval.Success
    THEN [result |-> res, err |-> <<>>]
    ELSE [result |-> "", err |-> <<"evaluation unsuccessful">>]

\* the return values of Execute when it returns after a verdict
VerdictReturn(res, eval) == [result |-> res, err |-> <<>>]

\* entity.EvaluationCriteria of the Evaluate call for the current attempt
Criteria == [TaskDescription |-> task, ActualResult |-> result, AgentType |-> variant]

\* Agent.Execute is called: originalTask := task
AgentExecute ==
    /\ agentPc = "idle"
    /\ agentPc' = "LoopHead"
    /\ retry' = 0
    /\ taskText' = task
    /\ lastResult' = ""
    /\ UNCHANGED <<extVars, loopVars, asmVars, agentResult, agentErr, attempts, results, evaluations>>

\* head of `for retry := 0; retry <= maxRetries; retry++`: the next attempt
\* enters executeWithIterations with the transcript [system prompt, task text]
StartAttempt ==
    /\ agentPc = "LoopHead"
    /\ IF retry <= maxRetries
       THEN /\ attempts' = Append(attempts, taskText)
            /\ messages' = <<Message(RoleSystem, systemPrompt, <<>>, "", ""),
                             Message(RoleUser, taskText, <<>>, "", "")>>
            /\ iteration' = 1
            /\ pc' = "Running"
            /\ resp' = Message(RoleAssistant, "", <<>>, "", "")
            /\ tcIdx' = 0
            /\ result' = ""
            /\ err' = <<>>
            /\ modelCalls' = 0
            /\ executed' = <<>>
            /\ agentPc' = "Attempt"
            /\ UNCHANGED <<agentResult, agentErr>>
       ELSE /\ agentResult' = lastResult
            /\ agentErr' = <<>>
            /\ agentPc' = "Returned"
            /\ UNCHANGED <<attempts, messages, iteration, pc, resp, tcIdx, result, err,
                           modelCalls, executed>>
    /\ UNCHANGED <<extVars, request, asmVars, ctxDone, variant, llmTurn, retry, taskText, lastResult,
                   results, evaluations>>

\* mutant: a failed attempt falls back on the result of the attempt before
AttemptErrorReturnLast(last, e) == [result |-> last, err |-> <<>>]

\* `if err != nil { return "", err }` after executeWithIterations
AttemptErrorReturn(last, e) == [result |-> "", err |-> e]

\* mutant: the failure of the judge's model call is returned to the caller
EvaluateErrorReturnStrict(res, e) == [result |-> "", err |-> e]

\* `if err != nil { ...; return result, nil }` after Evaluate
EvaluateErrorReturn(res, e) == [result |-> res, err |-> <<>>]

\* executeWithIterations returned an error: Execute returns it
AttemptFails ==
    /\ agentPc = "Attempt"
    /\ pc = "Failed"
    /\ agentResult' = AttemptErrorReturn(lastResult, err).result
    /\ agentErr' = AttemptErrorReturn(lastResult, err).err
    /\ agentPc' = "Returned"
    /\ UNCHANGED <<extVars, loopVars, asmVars, retry, taskText, lastResult, attempts, results, evaluations>>

\* executeWithIterations returned a result: Evaluate is called
AttemptReturns ==
    /\ agentPc = "Attempt"
    /\ pc = "Done"
    /\ lastResult' = result
    /\ results' = Append(results, result)
    /\ agentPc' = "Evaluating"
    /\ UNCHANGED <<extVars, loopVars, asmVars, retry, taskText, agentResult, agentErr, attempts, evaluations>>

\* the model call of Evaluate fails: the result is returned anyway
EvaluateFails ==
    /\ agentPc = "Evaluating"
    /\ evaluations' = Append(evaluations,
                             [criteria |-> Criteria, reply |-> "", eval |-> <<>>,
                              err |-> <<"evaluation llm request failed: " \o chatFailure>>])
    /\ agentResult' = EvaluateErrorReturn(result, <<"evaluation llm request failed: " \o chatFailure>>).result
    /\ agentErr' = EvaluateErrorReturn(result, <<"evaluation llm request failed: " \o chatFailure>>).err
    /\ agentPc' = "Returned"
    /\ UNCHANGED <<extVars, loopVars, asmVars, retry, taskText, lastResult, attempts, results>>

\* the judge replies with a text from which Evaluate returns a verdict:
\* Execute returns the result or prepares the next attempt
EvaluateReturns ==
    /\ agentPc = "Evaluating"
    /\ \E reply \in JudgeReplies :
          LET ret == Evaluate(reply)
          IN /\ ~ret.panicked
             /\ evaluations' = Append(evaluations,
                                      [criteria |-> Criteria, reply |-> reply,
                                       eval |-> ret.result, err |-> ret.err])
             /\ IF Decision(ret.result[1], retry) = "return"
                THEN /\ agentResult' = VerdictReturn(result, ret.result[1]).result
                     /\ agentErr' = VerdictReturn(result, ret.result[1]).err
                     /\ agentPc' = "Returned"
                     /\ UNCHANGED <<retry, taskText>>
                ELSE /\ taskText' = RetryTask(task, ret.result[1])
                     /\ retry' = retry + 1
                     /\ agentPc' = "LoopHead"
                     /\ UNCHANGED <<agentResult, agentErr>>
    /\ UNCHANGED <<extVars, loopVars, asmVars, lastResult, attempts, results>>

\* the judge replies with a text on which parseEvaluationResponse panics
EvaluatePanics ==
    /\ agentPc = "Evaluating"
    /\ \E reply \in JudgeReplies : Evaluate(reply).panicked
    /\ agentPc' = "Panicked"
    /\ UNCHANGED <<extVars, loopVars, asmVars, retry, taskText, lastResult, agentResult, agentErr,
                   attempts, results, evaluations>>

\* the tool-calling turns of the model in the runs of the evaluated sub-agent
RetryTurns == {<<ToolCall("call_1", "echo", "hi")>>,
               <<ToolCall("call_2", "ghost", "{}"), ToolCall("call_3", "boom", "x")>>}

RetryInit ==
    /\ variant \in SubAgents
    /\ llmTurn \in RetryTurns
    /\ pc = "idle"
    /\ messages = <<>>
    /\ iteration = 0
    /\ resp = Message(RoleAssistant, "", <<>>, "", "")
    /\ tcIdx = 0
    /\ result = ""
    /\ err = <<>>
    /\ modelCalls = 0
    /\ executed = <<>>
    /\ ctxDone = FALSE
    /\ request = <<>>
    /\ ExtIdle
    /\ AsmIdle
    /\ AgentIdle

RetryNext ==
    \/ AgentExecute
    \/ StartAttempt
    \/ CallModel
    \/ MaxIterationsExceeded
    \/ ChatFails
    \/ ChatReturnsAnswer
    \/ ChatReturnsToolCalls
    \/ DispatchUnknownTool
    \/ StartTool
    \/ ToolReturns
    \/ AttemptFails
    \/ AttemptReturns
    \/ EvaluateFails
    \/ EvaluateReturns
    \/ EvaluatePanics

RetrySpec == RetryInit /\ [][RetryNext]_vars

\* the evaluated sub-agent whose caller may cancel the context
RetryCancelNext == RetryNext \/ Cancel

RetryCancelSpec == RetryInit /\ [][RetryCancelNext]_vars

(***************************************************************************)
(* The browser adapter (rod.BrowserAdapter): its state, Close, IsReady and *)
(* the operations that go through checkState. An operation validates its   *)
(* arguments and calls checkState, which holds b.mu only while it reads    *)
(* the fields; then it uses b.page without the lock. An error is           *)
(* [Is, Text]: the sentinel that errors.Is finds and the message.          *)
(***************************************************************************)
ErrBrowserNotInitialized == "browser is not initialized"
ErrPageNotInitialized == "page is not initialized"
ErrInvalidURL == "invalid URL"
ErrInvalidSelector == "invalid selector"
ErrBrowserNotConnected == "browser is not connected"
ErrInvalidScrollDirection == "invalid scroll direction"

\* the goroutines that call the adapter
Goroutines == {"g1", "g2"}

\* a sentinel error, and fmt.Errorf("%w: ...", sentinel, ...)
Sentinel(e) == [Is |-> e, Text |-> e]
Wrapped(e, detail) == [Is |-> e, Text |-> e \o ": " \o detail]
\* an error of the browser driver, wrapped by the operation
DriverError(text) == [Is |-> "", Text |-> text]

upperLetters == "ABCDEFGHIJKLMNOPQRSTUVWXYZ"
lowerLetters == "abcdefghijklmnopqrstuvwxyz"

\* strings.ToLower
RECURSIVE ToLower(_)
ToLower(text) ==
    IF text = "" THEN ""
    ELSE LET c == CharAt(text, 0)
             i == Index(upperLetters, c)
         IN (IF i < 0 THEN c ELSE CharAt(lowerLetters, i)) \o ToLower(SubSeq(text, 2, Len(text)))

\* the bytes a URL scheme is made of
IsSchemeByte(c) ==
    \/ Index(upperLetters, c) >= 0
    \/ Index(lowerLetters, c) >= 0
    \/ Index("0123456789+-.", c) >= 0

\* url.Parse, as far as validateURL reads its result: the Scheme, or the
\* error of a URL that starts with a colon
urlParse(targetURL) ==
    LET colon == Index(targetURL, ":")
    IN IF colon = 0 THEN [Scheme |-> "", err |-> <<"missing protocol scheme">>]
       ELSE IF colon > 0 /\ \A i \in 0..(colon - 1) : IsSchemeByte(CharAt(targetURL, i))
       THEN [Scheme |-> SubSeq(targetURL, 1, colon), err |-> <<>>]
       ELSE [Scheme |-> "", err |-> <<>>]

\* validateURL: the error as a pointer
validateURL(targetURL) ==
    IF TrimSpace(targetURL) = "" THEN <<Wrapped(ErrInvalidURL, "URL cannot be empty")>>
    ELSE LET parsed == urlParse(targetURL)
             scheme == ToLower(parsed.Scheme)
         IN IF parsed.err # <<>> THEN <<Wrapped(ErrInvalidURL, parsed.err[1])>>
            ELSE IF scheme \notin {"http", "https", "about"}
            THEN <<Wrapped(ErrInvalidURL, "unsupported scheme \"" \o scheme
                                          \o "\" (only http, https, about allowed)")>>
            ELSE <<>>

\* validateSelector
validateSelector(selector) ==
    IF TrimSpace(selector) = "" THEN <<Wrapped(ErrInvalidSelector, "selector cannot be empty")>>
    ELSE <<>>

\* the check an operation makes on its arguments before checkState
ValidateArguments(op, arg) ==
    CASE op = "Navigate" -> validateURL(arg)
      [] op \in {"Click", "Fill"} -> validateSelector(arg)
      [] OTHER -> <<>>

\* mutant: checkState does not look at `closed`
checkStateFields(isClosed, browserPtr, pagePtr) ==
    IF browserPtr = <<>> THEN <<Sentinel(ErrBrowserNotInitialized)>>
    ELSE IF pagePtr = <<>> THEN <<Sentinel(ErrPageNotInitialized)>>
    ELSE <<>>

\* checkState
checkState(isClosed, browserPtr, pagePtr) ==
    IF isClosed THEN <<Sentinel(ErrBrowserNotConnected)>>
    ELSE IF browserPtr = <<>> THEN <<Sentinel(ErrBrowserNotInitialized)>>
    ELSE IF pagePtr = <<>> THEN <<Sentinel(ErrPageNotInitialized)>>
    ELSE <<>>

\* the operations of the adapter that go through checkState, with the
\* argument that is validated (the URL, the selector, the direction)
BrowserCalls ==
    ({"Navigate"} \X {"http://example.com", "HTTPS://EXAMPLE.COM", "", "ftp://example.com"})
    \cup ({"Click", "Fill"} \X {"#test", " "})
    \cup ({"PressEnter"} \X {""})
    \cup ({"Scroll"} \X {"down", "sideways"})

\* how the part of an operation after checkState can end when it reads
\* b.page: with a page, the driver succeeds or fails (Scroll fails on an
\* unknown direction before it reads the page); with the nil that Close has
\* stored, the method call on the nil page panics, or the unsynchronised read
\* has given the page of before and the driver fails on the closed browser
OperationOutcomes(op, arg, pagePtr) ==
    IF op = "Scroll" /\ ToLower(TrimSpace(arg)) \notin {"down", "up", "top", "bottom"}
    THEN {[err |-> <<Wrapped(ErrInvalidScrollDirection,
                             arg \o " (valid: down, up, top, bottom)")>>,
           panicked |-> FALSE, touched |-> FALSE]}
    ELSE IF pagePtr # <<>>
    THEN {[err |-> <<>>, panicked |-> FALSE, touched |-> TRUE],
          [err |-> <<DriverError(op \o " failed: timeout")>>, panicked |-> FALSE, touched |-> TRUE]}
    ELSE {[err |-> <<>>, panicked |-> TRUE, touched |-> FALSE],
          [err |-> <<DriverError(op \o " failed: connection closed")>>, panicked |-> FALSE,
           touched |-> TRUE]}

\* a call that returned
Returned(op, arg, closedAtCall, e, panicked, touched, ready) ==
    [Op |-> op, Arg |-> arg, ClosedAtCall |-> closedAtCall, Err |-> e, Panicked |-> panicked,
     Touched |-> touched, Ready |-> ready]

\* calls made on the adapter so far
BrowserCallCount == Len(browserLog) + Cardinality({g \in Goroutines : inflight[g] # <<>>})

\* NewBrowserAdapter returned the adapter
BrowserStart ==
    /\ closed = FALSE
    /\ browser = <<"browser">>
    /\ launcher = <<"launcher">>
    /\ page = <<"page">>
    /\ inflight = [g \in Goroutines |-> <<>>]
    /\ browserLog = <<>>

\* a goroutine calls Navigate, Click, Fill, PressEnter or Scroll: the
\* arguments are validated and checkState is called; the call returns the
\* error of either, or goes on
BeginOperation ==
    /\ BrowserCallCount < MaxBrowserCalls
    /\ \E g \in Goroutines, call \in BrowserCalls :
         /\ inflight[g] = <<>>
         /\ LET invalid == ValidateArguments(call[1], call[2])
                state == checkState(closed, browser, page)
                e == IF invalid # <<>> THEN invalid ELSE state
            IN IF e # <<>>
               THEN /\ browserLog' = Append(browserLog,
                                            Returned(call[1], call[2], closed, e, FALSE, FALSE, FALSE))
                    /\ inflight' = inflight
               ELSE /\ inflight' = [inflight EXCEPT ![g] = <<[Op |-> call[1], Arg |-> call[2],
                                                            ClosedAtCall |-> closed]>>]
                    /\ browserLog' = browserLog
    /\ UNCHANGED <<loopVars, asmVars, agentVars, orchVars, promptVars, regVars, convVars, runVars,
                   closed, browser, launcher, page>>

\* the operation uses b.page and returns
FinishOperation ==
    /\ \E g \in Goroutines :
         /\ inflight[g] # <<>>
         /\ LET call == inflight[g][1]
            IN \E out \in OperationOutcomes(call.Op, call.Arg, page) :
                  browserLog' = Append(browserLog,
                                       Returned(call.Op, call.Arg, call.ClosedAtCall, out.err,
                                                out.panicked, out.touched, FALSE))
         /\ inflight' = [inflight EXCEPT ![g] = <<>>]
    /\ UNCHANGED <<loopVars, asmVars, agentVars, orchVars, promptVars, regVars, convVars, runVars,
                   closed, browser, launcher, page>>

\* Close, under b.mu
Close ==
    /\ BrowserCallCount < MaxBrowserCalls
    /\ \E g \in Goroutines : inflight[g] = <<>>
    /\ IF closed
       THEN UNCHANGED <<closed, browser, launcher, page>>
       ELSE /\ closed' = TRUE
            /\ browser' = <<>>
            /\ launcher' = <<>>
            /\ page' = <<>>
    /\ browserLog' = Append(browserLog, Returned("Close", "", closed, <<>>, FALSE, FALSE, FALSE))
    /\ UNCHANGED <<loopVars, asmVars, agentVars, orchVars, promptVars, regVars, convVars, runVars, inflight>>

\* IsReady, under b.mu: whether b.page.Info() succeeds is up to the browser
IsReady ==
    /\ BrowserCallCount < MaxBrowserCalls
    /\ \E g \in Goroutines : inflight[g] = <<>>
    /\ \E info \in BOOLEAN :
         LET ready == IF closed \/ browser = <<>> \/ page = <<>> THEN FALSE ELSE info
         IN browserLog' = Append(browserLog,
                                 Returned("IsReady", "", closed, <<>>, FALSE,
                                          ~(closed \/ browser = <<>> \/ page = <<>>), ready))
    /\ UNCHANGED <<loopVars, asmVars, agentVars, orchVars, promptVars, regVars, convVars, runVars,
                   closed, browser, launcher, page, inflight>>

BrowserNext ==
    \/ BeginOperation
    \/ FinishOperation
    \/ Close
    \/ IsReady

(***************************************************************************)
(* The orchestrator's system prompt (prompts.GenerateOrchestratorPrompt)   *)
(* over the agent registry (SimpleAgentRegistryImpl).                      *)
(***************************************************************************)
\* prompts.AgentInfo
AgentInfo(name, description) == [Name |-> name, Description |-> description]

\* the sub-agents that can be registered, by sub-agent type and description
\* (for the agents of the repository the type is the key of the registry)
PromptAgents ==
    {AgentInfo("navigation", "Navigate to URLs and verify pages loaded."),
     AgentInfo("extraction", "Extract and read structured data from pages."),
     AgentInfo("form", "Fill forms, click buttons, and modify page content."),
     AgentInfo("form", "Fill forms and click buttons"),
     AgentInfo("analysis", "Analyze page content")}

\* SimpleAgentRegistryImpl.Register: r.agents[agent.GetType()] = agent
RegisterAgent(registry, agent) ==
    {a \in registry : a.Name # agent.Name} \cup {agent}

\* the position of a byte among the bytes of sub-agent type names
ByteRank(c) == Index(lowerLetters, c)

\* the Go comparison a < b of two strings: byte by byte
RECURSIVE StringLess(_, _)
StringLess(a, b) ==
    IF b = "" THEN FALSE
    ELSE IF a = "" THEN TRUE
    ELSE IF CharAt(a, 0) # CharAt(b, 0) THEN ByteRank(CharAt(a, 0)) < ByteRank(CharAt(b, 0))
    ELSE StringLess(SubSeq(a, 2, Len(a)), SubSeq(b, 2, Len(b)))

\* one element put in its place in a sorted slice
RECURSIVE InsertByName(_, _)
InsertByName(sorted, info) ==
    IF sorted = <<>> THEN <<info>>
    ELSE IF StringLess(info.Name, sorted[1].Name) THEN <<info>> \o sorted
    ELSE <<sorted[1]>> \o InsertByName(Tail(sorted), info)

\* mutant: the agents are rendered in the order List() returned them
sortSliceKept(infos) == infos

\* sort.Slice(agentInfos, func(i, j) bool { return agentInfos[i].Name < agentInfos[j].Name })
RECURSIVE sortSlice(_)
sortSlice(infos) ==
    IF infos = <<>> THEN <<>>
    ELSE InsertByName(sortSlice(SubSeq(infos, 1, Len(infos) - 1)), infos[Len(infos)])

\* templates
agentsTemplate == "Test template\n\n## AVAILABLE AGENTS\n\n{{range .Agents -}}\n- {{.Name}}: {{.Description}}\n{{end}}"
plainTemplate == "You are the orchestrator."
invalidFieldTemplate == "Test {{.InvalidField}}"
unclosedTemplate == "Test {{range .Agents}}"

PromptTemplates == {agentsTemplate, plainTemplate, invalidFieldTemplate, unclosedTemplate}

\* template.New("orchestrator").Parse: the node list of the templates that
\* parse (text, field of dot, range over a field of dot); `-}}` has removed
\* the white space behind the range action
templateParse(text) ==
    CASE text = agentsTemplate ->
            [nodes |-> <<[text |-> "Test template\n\n## AVAILABLE AGENTS\n\n"],
                         [range |-> "Agents",
                          body |-> <<[text |-> "- "], [field |-> "Name"], [text |-> ": "],
                                     [field |-> "Description"], [text |-> "\n"]>>]>>,
             err |-> <<>>]
      [] text = plainTemplate ->
            [nodes |-> <<[text |-> plainTemplate]>>, err |-> <<>>]
      [] text = invalidFieldTemplate ->
            [nodes |-> <<[text |-> "Test "], [field |-> "InvalidField"]>>, err |-> <<>>]
      [] OTHER -> [nodes |-> <<>>, err |-> <<"template: orchestrator:1: unexpected EOF">>]

\* the nodes of a range body executed with dot = one AgentInfo
RECURSIVE executeBody(_, _)
executeBody(nodes, dot) ==
    IF nodes = <<>> THEN [out |-> "", err |-> <<>>]
    ELSE LET node == nodes[1]
             first == IF "text" \in DOMAIN node THEN [out |-> node.text, err |-> <<>>]
                      ELSE IF node.field \in DOMAIN dot
                      THEN [out |-> dot[node.field], err |-> <<>>]
                      ELSE [out |-> "", err |-> <<"can't evaluate field " \o node.field>>]
             rest == executeBody(Tail(nodes), dot)
         IN IF first.err # <<>> THEN first
            ELSE IF rest.err # <<>> THEN rest
            ELSE [out |-> first.out \o rest.out, err |-> <<>>]

\* a range node: its body once per element, in slice order
RECURSIVE executeRange(_, _)
executeRange(body, elements) ==
    IF elements = <<>> THEN [out |-> "", err |-> <<>>]
    ELSE LET first == executeBody(body, elements[1])
             rest == executeRange(body, Tail(elements))
         IN IF first.err # <<>> THEN first
            ELSE IF rest.err # <<>> THEN rest
            ELSE [out |-> first.out \o rest.out, err |-> <<>>]

\* tmpl.Execute(&buf, data) with dot = OrchestratorPromptData
RECURSIVE templateExecute(_, _)
templateExecute(nodes, data) ==
    IF nodes = <<>> THEN [out |-> "", err |-> <<>>]
    ELSE LET node == nodes[1]
             first == IF "text" \in DOMAIN node THEN [out |-> node.text, err |-> <<>>]
                      ELSE IF "range" \in DOMAIN node
                      THEN IF node.range \in DOMAIN data
                           THEN executeRange(node.body, data[node.range])
                           ELSE [out |-> "", err |-> <<"can't evaluate field " \o node.range>>]
                      ELSE [out |-> "", err |-> <<"can't evaluate field " \o node.field>>]
             rest == templateExecute(Tail(nodes), data)
         IN IF first.err # <<>> THEN first
            ELSE IF rest.err # <<>> THEN rest
            ELSE [out |-> first.out \o rest.out, err |-> <<>>]

\* GenerateOrchestratorPrompt, agents being what agentRegistry.List() returned
GenerateOrchestratorPrompt(baseTemplate, agents) ==
    LET agentInfos == [i \in 1..Len(agents) |->
                          AgentInfo(agents[i].Name, agents[i].Description)]
        data == [Agents |-> sortSlice(agentInfos)]
        tmpl == templateParse(baseTemplate)
    IN IF tmpl.err # <<>> THEN [prompt |-> "", err |-> tmpl.err]
       ELSE LET buf == templateExecute(tmpl.nodes, data)
            IN IF buf.err # <<>> THEN [prompt |-> "", err |-> buf.err]
               ELSE [prompt |-> buf.out, err |-> <<>>]

\* agentRegistry.Register(agent), while the program is being wired
Register_Agent ==
    /\ promptOut = <<>>
    /\ \E agent \in PromptAgents :
          /\ agent \notin agentRegistry
          /\ agentRegistry' = RegisterAgent(agentRegistry, agent)
    /\ UNCHANGED <<loopVars, asmVars, agentVars, regVars, convVars, runVars, browserVars,
                   orchVars, promptTemplate, listed, promptOut>>

\* GenerateOrchestratorPrompt(template, registry) is called; List() ranges
\* over the map of the registry, in any order
GeneratePrompt ==
    /\ \E baseTemplate \in PromptTemplates, agents \in RangeOrders(agentRegistry) :
          /\ promptTemplate' = baseTemplate
          /\ listed' = agents
          /\ promptOut' = <<GenerateOrchestratorPrompt(baseTemplate, agents)>>
    /\ UNCHANGED <<loopVars, asmVars, agentVars, regVars, convVars, runVars, browserVars,
                   orchVars, agentRegistry>>

PromptNext ==
    \/ Register_Agent
    \/ GeneratePrompt

(***************************************************************************)
(* Specifications.                                                         *)
(***************************************************************************)
LoopInit == LoopIdle /\ AsmIdle /\ AgentIdle /\ ExtIdle

LoopSpec == LoopInit /\ [][LoopNext]_vars

\* the assembler runs alone; the loop is not started
AsmStart ==
    /\ variant = "executor"
    /\ llmTurn = <<ToolCall("call_1", "echo", "hi")>>
    /\ pc = "idle"
    /\ messages = <<>>
    /\ iteration = 0
    /\ resp = Message(RoleAssistant, "", <<>>, "", "")
    /\ tcIdx = 0
    /\ result = <<>>
    /\ err = <<>>
    /\ modelCalls = 0
    /\ executed = <<>>
    /\ ctxDone = FALSE
    /\ request = <<>>
    /\ ExtIdle
    /\ AsmInit
    /\ AgentIdle

AsmSpec == AsmStart /\ [][AsmNext]_vars

\* a text of n bytes
RECURSIVE Pad(_)
Pad(n) ==
    IF n = 0 THEN ""
    ELSE LET half == Pad(n \div 2)
         IN IF n % 2 = 0 THEN half \o half ELSE half \o half \o "a"

\* payload sizes around maxObservationLen
PayloadSizes == {MinPayload} \cup ((maxObservationLen - 30) .. (maxObservationLen - 30 + PayloadSpread))
                 \cup ((maxObservationLen - 1) .. (maxObservationLen + PayloadSpread))

\* one oversized or undersized call: a tool that returns the payload, a tool
\* that fails with the payload as its message, an unregistered name made of
\* the payload
ObsCalls ==
    UNION {{ToolCall("call_9", "echo", Pad(n)),
            ToolCall("call_9", "fail", Pad(n)),
            ToolCall("call_9", "x" \o Pad(n), "{}")} : n \in PayloadSizes}

\* the first model turn carried one call; executeTool is about to run
ObsInit ==
    /\ variant \in Variants
    /\ \E tc \in ObsCalls :
          /\ llmTurn = <<tc>>
          /\ resp = Message(RoleAssistant, thinkingText, <<tc>>, "", "")
    /\ pc = "DispatchingTools"
    /\ messages = <<Message(RoleSystem, systemPrompt, <<>>, "", ""),
                    Message(RoleUser, task, <<>>, "", ""),
                    resp>>
    /\ iteration = 1
    /\ tcIdx = 1
    /\ result = NoResult(variant)
    /\ err = <<>>
    /\ modelCalls = 1
    /\ executed = <<>>
    /\ ctxDone = FALSE
    /\ request = <<ChatRequest(<<Message(RoleSystem, systemPrompt, <<>>, "", ""),
                                  Message(RoleUser, task, <<>>, "", "")>>)>>
    /\ ExtIdle
    /\ AsmIdle
    /\ AgentIdle

\* executeTool and the append of its observation
ObsNext ==
    \/ DispatchUnknownTool
    \/ StartTool
    \/ ToolReturns

ObsSpec == ObsInit /\ [][ObsNext]_vars

\* the loop with a caller that may cancel the context
CancelNext == LoopNext \/ Cancel

CancelSpec == LoopInit /\ [][CancelNext]_vars

\* no loop runs: Execute was not called
LoopParked ==
    /\ variant = "executor"
    /\ llmTurn = <<ToolCall("call_1", "echo", "hi")>>
    /\ pc = "idle"
    /\ messages = <<>>
    /\ iteration = 0
    /\ resp = Message(RoleAssistant, "", <<>>, "", "")
    /\ tcIdx = 0
    /\ result = <<>>
    /\ err = <<>>
    /\ modelCalls = 0
    /\ executed = <<>>
    /\ ctxDone = FALSE
    /\ request = <<>>

\* the orchestrator has not been called; its model delegates in every turn
DelegationInit ==
    /\ variant = "orchestrator"
    /\ llmTurn \in DelegationTurns
    /\ pc = "idle"
    /\ messages = <<>>
    /\ iteration = 0
    /\ resp = Message(RoleAssistant, "", <<>>, "", "")
    /\ tcIdx = 0
    /\ result = <<>>
    /\ err = <<>>
    /\ modelCalls = 0
    /\ executed = <<>>
    /\ ctxDone = FALSE
    /\ request = <<>>
    /\ AsmIdle
    /\ AgentIdle
    /\ RegIdle
    /\ ConvIdle
    /\ RunIdle
    /\ BrowserIdle
    /\ PromptIdle
    /\ delegate \in SubAgentRuns

DelegationSpec == DelegationInit /\ [][LoopNext]_vars

\* the navigation agent has not been called
NavigationInit ==
    /\ variant = "navigation"
    /\ llmTurn \in ToolTurns
    /\ pc = "idle"
    /\ messages = <<>>
    /\ iteration = 0
    /\ resp = Message(RoleAssistant, "", <<>>, "", "")
    /\ tcIdx = 0
    /\ result = ""
    /\ err = <<>>
    /\ modelCalls = 0
    /\ executed = <<>>
    /\ ctxDone = FALSE
    /\ request = <<>>
    /\ AsmIdle
    /\ AgentIdle
    /\ ExtIdle

NavigationSpec == NavigationInit /\ [][NavigationNext]_vars

\* the agent registry was built by NewSimpleAgentRegistry
PromptInit ==
    /\ LoopParked
    /\ AsmIdle
    /\ AgentIdle
    /\ PromptIdle
    /\ RegIdle
    /\ ConvIdle
    /\ RunIdle
    /\ BrowserIdle
    /\ DelegateIdle

PromptSpec == PromptInit /\ [][PromptNext]_vars

\* the registry was built by NewToolRegistry; the sub-agents hold it
RegistryInit ==
    /\ LoopParked
    /\ AsmIdle
    /\ AgentIdle
    /\ PromptIdle
    /\ DelegateIdle
    /\ RegIdle
    /\ ConvIdle
    /\ RunIdle
    /\ BrowserIdle

RegistrySpec == RegistryInit /\ [][RegistryNext]_vars

\* the port is built; no message was converted
ConvInit ==
    /\ LoopParked
    /\ AsmIdle
    /\ AgentIdle
    /\ PromptIdle
    /\ DelegateIdle
    /\ RegIdle
    /\ ConvIdle
    /\ RunIdle
    /\ BrowserIdle

ConvSpec == ConvInit /\ [][ConvNext]_vars

\* an executor or an agent was built; Execute / Run was not called
RunsInit ==
    /\ LoopParked
    /\ AsmIdle
    /\ AgentIdle
    /\ PromptIdle
    /\ DelegateIdle
    /\ RegIdle
    /\ ConvIdle
    /\ RunsStart
    /\ BrowserIdle

RunsSpec == RunsInit /\ [][RunsNext]_vars

\* the adapter was built by NewBrowserAdapter; nothing was called
BrowserInit ==
    /\ LoopParked
    /\ AsmIdle
    /\ AgentIdle
    /\ PromptIdle
    /\ DelegateIdle
    /\ RegIdle
    /\ ConvIdle
    /\ RunIdle
    /\ BrowserStart

BrowserSpec == BrowserInit /\ [][BrowserNext]_vars

(***************************************************************************)
(* Properties of the task-execution loop (checked under LoopSpec).         *)
(***************************************************************************)
\* positions of the assistant turns in the transcript
AssistantPositions == {p \in DOMAIN messages : messages[p].Role = RoleAssistant}
\* positions of the tool-role messages in the transcript
ToolPositions == {p \in DOMAIN messages : messages[p].Role = RoleTool}

RECURSIVE SumToolCalls(_)
SumToolCalls(P) ==
    IF P = {} THEN 0
    ELSE LET p == CHOOSE q \in P : TRUE
         IN Len(messages[p].ToolCalls) + SumToolCalls(P \ {p})

\* the ceilings the specification states
StatedCeiling(v) ==
    CASE v \in {"executor", "execute_task"} -> 50
      [] v = "orchestrator" -> 30
      [] v \in SubAgents -> 5

StatedCeilingError(v) ==
    CASE v \in {"executor", "execute_task"} -> "max iterations (50) exceeded"
      [] v = "orchestrator" -> "max iterations (30) exceeded"
      [] v \in SubAgents -> "max iterations (5) exceeded"

FailedWith(e) == pc = "Failed" /\ err = <<e>>

\* C1: when every model turn carries a tool call and no model call fails, the
\* loop makes exactly `ceiling` model calls and then fails with the
\* max-iterations error: the error is never returned after fewer model calls,
\* a (ceiling+1)-th model call is never made, and a run that ended without a
\* final answer and without a model failure ended with that error.
C1_CeilingExact ==
    /\ modelCalls <= StatedCeiling(variant)
    /\ FailedWith(StatedCeilingError(variant)) =>
          /\ modelCalls = StatedCeiling(variant)
          /\ Cardinality(AssistantPositions) = StatedCeiling(variant)
          /\ \A p \in AssistantPositions : messages[p].ToolCalls # <<>>
    /\ (/\ pc \in {"Done", "Failed"}
        /\ \A p \in AssistantPositions : messages[p].ToolCalls # <<>>
        /\ Cardinality(AssistantPositions) = modelCalls)
          => FailedWith(StatedCeilingError(variant))
    /\ (/\ pc = "Running"
        /\ modelCalls = StatedCeiling(variant))
          => ENABLED MaxIterationsExceeded /\ ~ENABLED CallModel

W1_CeilingReached ==
    /\ variant = "executor"
    /\ FailedWith("max iterations (50) exceeded")
    /\ modelCalls = 50
    /\ Cardinality(ToolPositions) = 100

\* C2: when the k-th model turn is the first without tool calls, Execute
\* returns FinalAnswer = that turn's text and Iterations = k with a nil error
\* (also for k = ceiling), and the transcript holds exactly as many tool-role
\* messages as there were tool calls in the turns 1..k-1.
C2_FinalAnswer ==
    pc = "Done" =>
        LET last == messages[Len(messages)]
            k == Cardinality(AssistantPositions)
        IN /\ last.Role = RoleAssistant
           /\ last.ToolCalls = <<>>
           /\ \A p \in AssistantPositions \ {Len(messages)} : messages[p].ToolCalls # <<>>
           /\ k = modelCalls
           /\ k \in 1..StatedCeiling(variant)
           /\ err = <<>>
           /\ IF variant \in TaskExecutors
              THEN result = <<[FinalAnswer |-> last.Content, Iterations |-> k]>>
              ELSE result = last.Content
           /\ Cardinality(ToolPositions) = SumToolCalls(AssistantPositions)

W2_AnswerAtCeiling ==
    /\ variant = "executor"
    /\ pc = "Done"
    /\ result = <<[FinalAnswer |-> "Hello!", Iterations |-> 50]>>
    /\ Cardinality(ToolPositions) = 98

\* the assistant turn a tool-role message at position q answers: the last
\* assistant message before q
TurnOf(q) ==
    CHOOSE p \in AssistantPositions :
        p < q /\ \A p2 \in AssistantPositions : p2 < q => p2 <= p

\* the last assistant turn of the transcript
LastTurn == CHOOSE p \in AssistantPositions : \A p2 \in AssistantPositions : p2 <= p

\* the tool-role messages that answer a call of a registered tool
RegisteredToolPositions == {q \in ToolPositions : messages[q].Name \in {"echo", "boom"}}

\* the tool-role messages that answer a call of an unregistered name
UnknownToolPositions == ToolPositions \ RegisteredToolPositions

\* Execute fails only for the iteration ceiling or for a failed model call
FailsOnlyForCeilingOrModel ==
    pc = "Failed" =>
        \/ err = <<StatedCeilingError(variant)>>
        \/ err = <<"llm request failed: chat completion failed: connection reset">>

\* C7: the tool calls c1..cn of a turn are executed one at a time in array
\* order, the execution of a call starting only when the observations of the
\* calls before it are appended; the transcript gains exactly n tool-role
\* messages directly after the assistant message, the j-th with
\* ToolCallID = cj.ID and Name = cj.Name, before the next model call.
C7_SequentialDispatch ==
    /\ \A p \in AssistantPositions :
          LET calls == messages[p].ToolCalls
              n == Len(calls)
          IN /\ \A j \in 1..n :
                   IF p + j <= Len(messages)
                   THEN /\ messages[p + j].Role = RoleTool
                        /\ messages[p + j].ToolCallID = calls[j].ID
                        /\ messages[p + j].Name = calls[j].Name
                   ELSE /\ pc \in {"DispatchingTools", "ToolRunning"}
                        /\ resp = messages[p]
                        /\ tcIdx = Len(messages) - p + 1
             /\ p + n + 1 <= Len(messages) => messages[p + n + 1].Role = RoleAssistant
    /\ \A q \in ToolPositions :
          \E p \in AssistantPositions : p < q /\ q <= p + Len(messages[p].ToolCalls)
    /\ pc = "ToolRunning" =>
          /\ executed[Len(executed)] = [Name |-> resp.ToolCalls[tcIdx].Name,
                                        Arguments |-> resp.ToolCalls[tcIdx].Arguments]
          /\ Len(messages) = LastTurn + tcIdx - 1
    /\ Len(executed) = Cardinality(RegisteredToolPositions)
                         + (IF pc = "ToolRunning" THEN 1 ELSE 0)
    /\ pc = "AwaitingModel" =>
          Cardinality(ToolPositions) = SumToolCalls(AssistantPositions)

\* a turn with two calls was answered by two tool-role messages, and the next
\* model call was made after them
W7_TwoCallsAnswered ==
    /\ Len(messages) >= 6
    /\ messages[3].ToolCalls = <<ToolCall("call_1", "echo", "hi"),
                                 ToolCall("call_3", "boom", "x")>>
    /\ messages[4].ToolCallID = "call_1" /\ messages[4].Name = "echo"
    /\ messages[5].ToolCallID = "call_3" /\ messages[5].Name = "boom"
    /\ messages[6].Role = RoleAssistant
    /\ executed = <<[Name |-> "echo", Arguments |-> "hi"], [Name |-> "boom", Arguments |-> "x"]>>

\* a call of an unregistered name executes no tool and does not end the loop
UnknownToolNotFatal ==
    /\ \A k \in DOMAIN executed : executed[k].Name \in {"echo", "boom"}
    /\ Len(executed) = Cardinality(RegisteredToolPositions)
                         + (IF pc = "ToolRunning" THEN 1 ELSE 0)
    /\ \A q \in UnknownToolPositions : messages[q].Role = RoleTool
    /\ FailsOnlyForCeilingOrModel
    /\ (messages # <<>> /\ Len(messages) \in UnknownToolPositions) =>
          pc \in {"DispatchingTools", "ToolRunning", "Running", "AwaitingModel", "Failed"}

\* C8 as stated: in every loop variant a call of an unregistered name yields
\* the observation "Error: unknown tool '<name>'", appended as a tool-role
\* message; no tool is executed and the loop continues.
C8_UnknownToolObservation ==
    /\ \A q \in UnknownToolPositions :
          messages[q].Content = "Error: unknown tool '" \o messages[q].Name \o "'"
    /\ UnknownToolNotFatal

\* C8 as amended: the observation is "Error: unknown agent tool '<name>'" in
\* the orchestrator and "Error: unknown tool '<name>'" in the other loops;
\* it is appended as a tool-role message, no tool is executed and the loop
\* continues.
C8_UnknownToolObservationByVariant ==
    /\ \A q \in UnknownToolPositions :
          messages[q].Content =
             (IF variant = "orchestrator"
              THEN "Error: unknown agent tool '"
              ELSE "Error: unknown tool '") \o messages[q].Name \o "'"
    /\ UnknownToolNotFatal

\* the orchestrator answered an unknown name, then a registered call was
\* executed and the next model call was made
W8_UnknownAgentTool ==
    /\ variant = "orchestrator"
    /\ Len(messages) >= 6
    /\ messages[4] = Message(RoleTool, "Error: unknown agent tool 'ghost'", <<>>,
                             "call_2", "ghost")
    /\ messages[5].Name = "echo"
    /\ messages[6].Role = RoleAssistant
    /\ executed = <<[Name |-> "echo", Arguments |-> "hi"]>>

\* C9: when a resolved tool's Execute returns an error, the observation
\* "Error: " + <error message> is appended as the tool-role message of that
\* call and the loop goes on with the remaining tool calls and the next model
\* call; Execute of the loop fails only for the ceiling or a model failure.
C9_ToolErrorObservation ==
    /\ \A q \in ToolPositions :
          /\ messages[q].Name = "boom" => messages[q].Content = "Error: boom failed"
          /\ messages[q].Name = "echo" =>
                messages[q].Content = messages[TurnOf(q)].ToolCalls[q - TurnOf(q)].Arguments
    /\ FailsOnlyForCeilingOrModel
    /\ (messages # <<>> /\ messages[Len(messages)].Role = RoleTool) =>
          pc \in {"DispatchingTools", "ToolRunning", "Running", "AwaitingModel", "Failed"}
    /\ (pc = "Failed" /\ err = <<StatedCeilingError(variant)>>) =>
          modelCalls = StatedCeiling(variant)

\* the failing tool was the first call of a turn; the second call of the turn
\* was executed and the next model call returned the answer
W9_ToolFailureSurvived ==
    /\ variant = "executor"
    /\ pc = "Done"
    /\ Len(messages) = 6
    /\ messages[4] = Message(RoleTool, "Error: boom failed", <<>>, "call_3", "boom")
    /\ messages[5] = Message(RoleTool, "hi", <<>>, "call_1", "echo")
    /\ result = <<[FinalAnswer |-> "Hello!", Iterations |-> 2]>>

\* C10: when a model call returns an error, Execute returns an error at once:
\* the request is not issued again, no further model call is made, no tool is
\* executed afterwards and no result is returned beside the error.
C10_ModelErrorIsFatal ==
    /\ modelCalls <= Cardinality(AssistantPositions) + 1
    /\ (modelCalls = Cardinality(AssistantPositions) + 1) =>
          \/ pc = "AwaitingModel"
          \/ /\ pc = "Failed"
             /\ err = <<"llm request failed: chat completion failed: connection reset">>
             /\ result = (IF variant \in TaskExecutors THEN <<>> ELSE "")
             /\ Cardinality(ToolPositions) = SumToolCalls(AssistantPositions)
             /\ Len(executed) = Cardinality(RegisteredToolPositions)
    /\ (pc = "Failed" /\ err # <<StatedCeilingError(variant)>>) =>
          modelCalls = Cardinality(AssistantPositions) + 1
    /\ pc = "Failed" => ~ENABLED LoopNext

\* the third model call of a streaming loop failed after two turns with tools
W10_ThirdCallFails ==
    /\ variant = "execute_task"
    /\ pc = "Failed"
    /\ err = <<"llm request failed: chat completion failed: connection reset">>
    /\ result = <<>>
    /\ modelCalls = 3
    /\ Cardinality(AssistantPositions) = 2
    /\ Len(executed) = 4

(***************************************************************************)
(* Properties of the response assembler (checked under AsmSpec).           *)
(***************************************************************************)
\* the tool-call fragments received so far, in arrival order
RECURSIVE FragmentsIn(_)
FragmentsIn(chunks) ==
    IF chunks = <<>> THEN <<>>
    ELSE (IF Head(chunks).Choices = <<>> THEN <<>> ELSE Head(chunks).Choices[1].ToolCalls)
         \o FragmentsIn(Tail(chunks))

\* the fragments tagged with stream index i, in arrival order
FragmentsOf(i) == SelectSeq(FragmentsIn(received), LAMBDA f : f.Index = <<i>>)

\* the stream indices that received at least one fragment
SeenIndices == {i \in StreamIndices : FragmentsOf(i) # <<>>}

RECURSIVE ReceivedReasoning(_)
ReceivedReasoning(chunks) ==
    IF chunks = <<>> THEN ""
    ELSE (IF Head(chunks).Choices = <<>> THEN "" ELSE Head(chunks).Choices[1].ReasoningContent)
         \o ReceivedReasoning(Tail(chunks))

RECURSIVE ReceivedText(_)
ReceivedText(chunks) ==
    IF chunks = <<>> THEN ""
    ELSE (IF Head(chunks).Choices = <<>> THEN "" ELSE Head(chunks).Choices[1].Content)
         \o ReceivedText(Tail(chunks))

RECURSIVE ConcatArguments(_)
ConcatArguments(fs) ==
    IF fs = <<>> THEN "" ELSE Head(fs).Arguments \o ConcatArguments(Tail(fs))

\* the last non-empty ID among the fragments ("" when there is none)
RECURSIVE LastID(_)
LastID(fs) ==
    IF fs = <<>> THEN ""
    ELSE IF fs[Len(fs)].ID # "" THEN fs[Len(fs)].ID
    ELSE LastID(SubSeq(fs, 1, Len(fs) - 1))

\* the last non-empty Name among the fragments ("" when there is none)
RECURSIVE LastName(_)
LastName(fs) ==
    IF fs = <<>> THEN ""
    ELSE IF fs[Len(fs)].Name # "" THEN fs[Len(fs)].Name
    ELSE LastName(SubSeq(fs, 1, Len(fs) - 1))

\* the tool call the fragments tagged i add up to
ExpectedToolCall(i) ==
    [ID |-> LastID(FragmentsOf(i)),
     Name |-> LastName(FragmentsOf(i)),
     Arguments |-> ConcatArguments(FragmentsOf(i))]

\* the delta of a chunk (an empty delta for a chunk without choices)
DeltaOf(chunk) == IF chunk.Choices = <<>> THEN Delta("", "", <<>>) ELSE chunk.Choices[1]

\* the stream indices (pointers) of the fragments of a chunk, in order
IndicesOf(chunk) ==
    [k \in 1..Len(DeltaOf(chunk).ToolCalls) |-> DeltaOf(chunk).ToolCalls[k].Index]

BlockTypes(m) == [k \in 1..Len(m.ContentBlocks) |-> m.ContentBlocks[k].Type]

\* C3: whatever the arrival order of the fragments, the content blocks of the
\* assembled message are one reasoning block iff reasoning was received, then
\* one text block iff text was received, then the tool-use blocks in strictly
\* ascending stream-index order; no tool-use block precedes a text or
\* reasoning block.
C3_BlockOrder ==
    (asmPc = "done" /\ asmVariant \in ContentBlockVariants) =>
        LET m == finalMessage[1]
            blocks == m.ContentBlocks
            r == ReceivedReasoning(received)
            t == ReceivedText(received)
            lead == (IF r # "" THEN <<ContentTypeThinking>> ELSE <<>>)
                    \o (IF t # "" THEN <<ContentTypeText>> ELSE <<>>)
        IN /\ BlockTypes(m) = lead \o [k \in 1..Len(indices) |-> ContentTypeToolUse]
           /\ \A k \in DOMAIN blocks :
                /\ blocks[k].Type = ContentTypeThinking => blocks[k].Thinking = r
                /\ blocks[k].Type = ContentTypeText => blocks[k].Text = t
                /\ blocks[k].Type = ContentTypeToolUse =>
                      blocks[k].ToolUse = <<toolCallsMap[indices[k - Len(lead)]]>>
           /\ \A k, l \in DOMAIN indices : k < l => indices[k] < indices[l]
           /\ \A k, l \in DOMAIN blocks :
                (k < l /\ blocks[k].Type = ContentTypeToolUse)
                    => blocks[l].Type = ContentTypeToolUse

\* the fragment of index 1 arrives before those of indices 2 and 0, the text
\* before the reasoning
W3_OutOfOrderArrival ==
    /\ asmVariant = "ChatStream"
    /\ asmPc = "done"
    /\ Len(received) = 3
    /\ DeltaOf(received[1]).Content = "Hi"
    /\ IndicesOf(received[2]) = << <<1>> >>
    /\ DeltaOf(received[3]).ReasoningContent = "Done. "
    /\ IndicesOf(received[3]) = << <<2>>, <<0>> >>
    /\ indices = <<0, 1, 2>>
    /\ BlockTypes(finalMessage[1]) = <<ContentTypeThinking, ContentTypeText,
                                       ContentTypeToolUse, ContentTypeToolUse, ContentTypeToolUse>>

\* C4: the accumulator of stream index i holds the concatenation, in arrival
\* order, of the argument substrings of exactly the fragments tagged i, with
\* the last non-empty id and name those fragments supplied; an accumulator
\* exists for exactly the indices that received a fragment; the tool calls of
\* the assembled message are these accumulators.
C4_Accumulation ==
    asmPc # "panic" =>
        /\ DOMAIN toolCallsMap = SeenIndices
        /\ \A i \in DOMAIN toolCallsMap : toolCallsMap[i] = ExpectedToolCall(i)
        /\ asmPc = "done" =>
              /\ Len(finalMessage[1].ToolCalls) = Len(indices)
              /\ \A k \in DOMAIN indices :
                    finalMessage[1].ToolCalls[k] = ExpectedToolCall(indices[k])

\* index 2 receives "{\"a\":" and "1}" around a fragment of index 0
W4_InterleavedArguments ==
    /\ asmPc = "done"
    /\ Len(received) = 3
    /\ IndicesOf(received[1]) = << <<2>> >>
    /\ IndicesOf(received[2]) = << <<0>> >>
    /\ IndicesOf(received[3]) = << <<2>> >>
    /\ toolCallsMap[2] = ToolCall("call_a", "search", "{\"a\":1}")
    /\ toolCallsMap[0] = ToolCall("call_b", "click", "")
    /\ finalMessage[1].ToolCalls = <<toolCallsMap[0], toolCallsMap[2]>>

\* C5: every stream index that received a fragment yields exactly one tool
\* call (and one tool-use block) in the assembled turn, also when the indices
\* are not contiguous or do not start at 0.
C5_NoToolCallDropped ==
    asmPc = "done" =>
        /\ Len(finalMessage[1].ToolCalls) = Cardinality(SeenIndices)
        /\ {indices[k] : k \in DOMAIN indices} = SeenIndices
        /\ asmVariant \in ContentBlockVariants =>
              Cardinality({k \in DOMAIN finalMessage[1].ContentBlocks :
                              finalMessage[1].ContentBlocks[k].Type = ContentTypeToolUse})
                  = Cardinality(SeenIndices)

\* C6: a tool-call fragment without a stream index is skipped: the stream is
\* not aborted, no accumulator is created for it or changed by it, and the
\* other fragments of the same and of later deltas are accumulated.
C6_NilIndexSkipped ==
    /\ asmPc # "panic"
    /\ DOMAIN toolCallsMap = SeenIndices
    /\ \A i \in DOMAIN toolCallsMap : toolCallsMap[i] = ExpectedToolCall(i)

\* C11: a stream that breaks with a receive error other than end-of-stream is
\* surfaced as an error of the model call: no turn is assembled from the text
\* and the tool calls accumulated so far, so none can be appended to the
\* transcript or executed.
C11_StreamErrorSurfaced ==
    recvErr = <<"unexpected EOF">> =>
        /\ asmPc = "error"
        /\ finalMessage = <<>>
        /\ indices = <<>>

\* C12: once the caller's context is cancelled during an execution, the loop
\* executes no further tool call and issues no further model call; it ends
\* with a cancellation-kind error, the cancelled tool's failure is not an
\* observation that is followed by more iterations.
C12_CancellationStopsLoop ==
    [][ctxDone => /\ executed' = executed
                  /\ modelCalls' = modelCalls
                  /\ pc' = "Failed" => err' = <<"llm request failed: context canceled">>]_vars

\* the marker executeTool appends to a truncated observation
truncationMarker == "\n... (truncated)"

\* whether the text ends with the truncation marker
EndsWithMarker(text) ==
    /\ Len(text) >= Len(truncationMarker)
    /\ SubSeq(text, Len(text) - Len(truncationMarker) + 1, Len(text)) = truncationMarker

\* the observation of the call tc before any truncation
UntruncatedObservation(tc) ==
    CASE tc.Name = "echo" -> tc.Arguments
      [] tc.Name = "fail" -> "Error: " \o tc.Arguments
      [] OTHER -> IF variant = "orchestrator"
                  THEN "Error: unknown agent tool '" \o tc.Name \o "'"
                  ELSE "Error: unknown tool '" \o tc.Name \o "'"

\* C13: every tool-role message of the transcript, for a tool result, a tool
\* error or an unknown name, has a content of at most maxObservationLen
\* (20000) bytes plus the truncation marker, and the marker is there exactly
\* when the untruncated observation was longer than maxObservationLen.
C13_ObservationBounded ==
    \A q \in ToolPositions :
        /\ Len(messages[q].Content) <= 20000 + Len(truncationMarker)
        /\ EndsWithMarker(messages[q].Content)
              <=> Len(UntruncatedObservation(messages[q - 1].ToolCalls[1])) > 20000

(***************************************************************************)
(* Properties of the evaluated sub-agent (checked under RetrySpec).        *)
(***************************************************************************)
\* the verdict of the k-th Evaluate call that returned one
VerdictOf(k) == evaluations[k].eval[1]

\* the k-th Evaluate call returned a verdict
HasVerdict(k) == k \in DOMAIN evaluations /\ evaluations[k].eval # <<>>

\* C14: one Execute runs at most maxRetries+1 = 3 attempts, numbered 0..2;
\* an attempt that completes without error is followed by exactly one
\* Evaluator call before any further attempt; a further attempt starts only
\* when the verdict has success=false and should_retry=true and the attempt
\* number is below maxRetries.
C14_AttemptsBounded ==
    /\ Len(attempts) <= 3
    /\ retry \in 0..2
    /\ Len(evaluations) <= Len(results)
    /\ Len(results) <= Len(attempts)
    /\ Len(results) <= Len(evaluations) + 1
    /\ agentPc = "LoopHead" =>
          Len(attempts) = retry /\ Len(results) = retry /\ Len(evaluations) = retry
    /\ agentPc = "Attempt" =>
          Len(attempts) = retry + 1 /\ Len(results) = retry /\ Len(evaluations) = retry
    /\ agentPc = "Evaluating" =>
          Len(attempts) = retry + 1 /\ Len(results) = retry + 1 /\ Len(evaluations) = retry
    /\ \A k \in 1..(Len(attempts) - 1) :
          /\ k <= Len(results)
          /\ HasVerdict(k)
          /\ evaluations[k].criteria.ActualResult = results[k]
          /\ VerdictOf(k).Success = FALSE
          /\ VerdictOf(k).ShouldRetry = TRUE
          /\ k - 1 < 2

\* three attempts were made and evaluated; the third verdict asked for one more
W14_ThreeAttempts ==
    /\ agentPc = "Returned"
    /\ Len(attempts) = 3
    /\ Len(evaluations) = 3
    /\ HasVerdict(3)
    /\ VerdictOf(3).Success = FALSE
    /\ VerdictOf(3).ShouldRetry = TRUE

\* C15: when the verdict on an attempt has success=true, Execute returns that
\* attempt's result with no error and starts no further attempt, whatever the
\* verdict's should_retry, confidence and issues are.
C15_SuccessReturns ==
    \A k \in DOMAIN evaluations :
        (HasVerdict(k) /\ VerdictOf(k).Success) =>
            /\ k = Len(evaluations)
            /\ Len(attempts) = k
            /\ agentPc = "Returned"
            /\ agentResult = results[k]
            /\ agentErr = <<>>

\* the second attempt was judged successful with a retry recommendation and
\* a low confidence; its result differs from the first attempt's
W15_SuccessWithRetryAdvice ==
    /\ agentPc = "Returned"
    /\ Len(evaluations) = 2
    /\ HasVerdict(2)
    /\ VerdictOf(2) = [Success |-> TRUE, Confidence |-> "0.2", Issues |-> <<"slow">>,
                       Feedback |-> "try again", ShouldRetry |-> TRUE]
    /\ results = <<"FAILED: nothing found", "Hello!">>
    /\ agentResult = "Hello!"

\* C16: when the verdict has success=false and either should_retry=false or
\* the attempt number equals maxRetries, Execute returns the result of the
\* last attempt with a nil error; Execute never returns an error because of a
\* verdict: an error comes from a failed attempt only.
C16_UnsuccessfulReturnsResult ==
    /\ \A k \in DOMAIN evaluations :
          (/\ HasVerdict(k)
           /\ ~VerdictOf(k).Success
           /\ (~VerdictOf(k).ShouldRetry \/ k - 1 = 2)) =>
              /\ k = Len(evaluations)
              /\ Len(attempts) = k
              /\ agentPc = "Returned"
              /\ agentResult = results[k]
              /\ agentErr = <<>>
    /\ agentErr # <<>> =>
          /\ Len(results) = Len(attempts) - 1
          /\ Len(evaluations) = Len(results)
          /\ agentResult = ""
          /\ \/ agentErr = <<"max iterations (5) exceeded">>
             \/ agentErr = <<"llm request failed: chat completion failed: connection reset">>

\* the retry budget ran out on an unsuccessful verdict that asked for a retry:
\* the third result is returned, which differs from the second
W16_BudgetExhausted ==
    /\ agentPc = "Returned"
    /\ Len(evaluations) = 3
    /\ HasVerdict(3)
    /\ ~VerdictOf(3).Success
    /\ VerdictOf(3).ShouldRetry
    /\ results = <<"Hello!", "Hello!", "FAILED: nothing found">>
    /\ agentResult = "FAILED: nothing found"
    /\ agentErr = <<>>

\* the issues of a verdict as a list numbered from 1 (up to two issues)
NumberedIssues(issues) ==
    CASE Len(issues) = 0 -> ""
      [] Len(issues) = 1 -> "1. " \o issues[1] \o "\n"
      [] Len(issues) = 2 -> "1. " \o issues[1] \o "\n" \o "2. " \o issues[2] \o "\n"

\* C17: the task text of attempt n+1 is the original task description
\* verbatim, followed by the feedback text of the verdict on attempt n and the
\* list of that verdict's issues numbered from 1; nothing of the verdict on
\* attempt n-1 is in it, so the text does not grow with the retries.
C17_RetryTaskText ==
    /\ attempts # <<>> => attempts[1] = "say hello"
    /\ \A n \in 1..(Len(attempts) - 1) :
          attempts[n + 1] = "say hello" \o "\n\nPREVIOUS ATTEMPT FEEDBACK:\n"
                               \o VerdictOf(n).Feedback \o "\n\nIssues to fix:\n"
                               \o NumberedIssues(VerdictOf(n).Issues)
    /\ agentPc = "Attempt" => messages[2].Content = attempts[Len(attempts)]

\* the third attempt follows two different verdicts and carries the second only
W17_SecondRetry ==
    /\ Len(attempts) = 3
    /\ VerdictOf(1).Feedback = "Need to use observe first"
    /\ VerdictOf(2).Feedback = "Click submit"
    /\ attempts[2] = "say hello\n\nPREVIOUS ATTEMPT FEEDBACK:\nNeed to use observe first\n\nIssues to fix:\n1. selectors missing\n2. no data extracted\n"
    /\ attempts[3] = "say hello\n\nPREVIOUS ATTEMPT FEEDBACK:\nClick submit\n\nIssues to fix:\n1. not submitted\n"

\* judge replies that are not JSON: no '{', no '}', or a substring from the
\* first '{' to the last '}' that does not decode
NonJSONReplies ==
    {"This is not JSON at all",
     "{\"success\":false",
     "success: false}",
     "{not json}",
     "}{",
     "{\"success\":false,\"confidence\":0.1,\"issues\":[\"page is gone\"],\"feedback\":\"nothing to do\",\"should_retry\":false} or {\"success\":false,\"confidence\":0.4,\"issues\":[\"not submitted\"],\"feedback\":\"Click submit\",\"should_retry\":true}"}

\* C18: when the judge's reply is not JSON, Evaluate returns, with a nil
\* error, the default verdict success=true, confidence=0.5, no issues, no
\* feedback, should_retry=false.
C18_FailOpenVerdict ==
    \A k \in DOMAIN evaluations :
        evaluations[k].reply \in NonJSONReplies =>
            /\ evaluations[k].err = <<>>
            /\ evaluations[k].eval = <<[Success |-> TRUE, Confidence |-> "0.5", Issues |-> <<>>,
                                        Feedback |-> "", ShouldRetry |-> FALSE]>>
            /\ agentPc = "Returned"
            /\ agentResult = results[k]
            /\ agentErr = <<>>

\* a reply with braces that does not decode was answered by the default
\* verdict, after a retry
W18_UndecodableReply ==
    /\ Len(evaluations) = 2
    /\ evaluations[2].reply = "{not json}"
    /\ evaluations[2].eval # <<>>
    /\ agentPc = "Returned"
    /\ agentResult = results[2]

\* C19: for every reply of the judge, whatever the positions of its first '{'
\* and its last '}', Evaluate completes and returns a verdict: a malformed
\* reply never turns a completed attempt into a failure or a crash.
C19_EvaluateNeverCrashes ==
    /\ agentPc # "Panicked"
    /\ (results # <<>> /\ agentPc = "Returned") => agentErr = <<>>

\* C20: when an attempt of the form or extraction agent exhausts its iteration
\* ceiling without a turn free of tool calls, one forced final-report model
\* call is made and its text is the result of the attempt: the attempt does
\* not fail with the max-iterations error.
C20_ForcedFinalReport ==
    /\ (agentPc = "Attempt" /\ pc = "Failed") => err # <<"max iterations (5) exceeded">>
    /\ agentErr # <<"max iterations (5) exceeded">>
    /\ (agentPc = "Attempt" /\ pc = "Running" /\ iteration > 5) => ENABLED CallModel

(***************************************************************************)
(* Properties of the tool registry and of the sub-agents' tool views       *)
(* (checked under RegistrySpec).                                           *)
(***************************************************************************)
\* the elements of a sequence
Elements(s) == {s[i] : i \in DOMAIN s}

\* C21: a sub-agent never executes a tool whose name is outside its
\* allow-list, also when the name is registered in the shared registry.
C21_OnlyAllowedToolsExecuted ==
    \A i \in DOMAIN toolRuns :
        toolRuns[i].Executed => toolRuns[i].Name \in Elements(allowedTools(toolRuns[i].Agent))

\* the positions of `all` whose entry is at position k of `part`
PositionsIn(all, part, k) == {p \in DOMAIN all : all[p] = part[k]}

\* the view is made of the definitions of `all` that the agent is allowed,
\* each once, in the order of `all`
IsFilteredView(view) ==
    LET allowed == Elements(allowedTools(view.Agent))
        all == view.AllTools
        f == view.Filtered
    IN /\ \A k \in DOMAIN f : f[k].Name \in allowed /\ PositionsIn(all, f, k) # {}
       /\ \A p \in DOMAIN all : all[p].Name \in allowed => all[p] \in Elements(f)
       /\ \A k, l \in DOMAIN f : k # l => f[k] # f[l]
       /\ \A k, l \in DOMAIN f :
             k < l => \A p \in PositionsIn(all, f, k), q \in PositionsIn(all, f, l) : p < q

\* C22: the definitions filterTools returns are exactly the definitions that
\* Definitions() returned whose name is in the allow-list, each at most once,
\* none outside the allow-list, in the order Definitions() returned them; and
\* the call leaves the registry as it was.
C22_FilteredView ==
    [][views' # views => /\ tools' = tools
                          /\ registered' = registered
                          /\ \A i \in DOMAIN views' : IsFilteredView(views'[i])]_vars

\* the navigation agent got [observe, fill, navigate] from the registry and
\* sends [observe, navigate], which is not the order of its allow-list
W22_RegistryOrderKept ==
    \E i \in DOMAIN views :
        /\ views[i].Agent = "navigation"
        /\ Len(views[i].AllTools) = 3
        /\ views[i].AllTools[2].Name = ToolBrowserFill
        /\ Len(views[i].Filtered) = 2
        /\ views[i].Filtered[1].Name = ToolBrowserObserve
        /\ views[i].Filtered[2].Name = ToolBrowserNavigate

\* the Register calls of a history that name n
RegistrationsOf(history, n) == {i \in DOMAIN history : history[i].Name = n}

\* the tool registered last under the name n, as a pointer
LatestRegistration(history, n) ==
    LET at == RegistrationsOf(history, n)
    IN IF at = {} THEN <<>>
       ELSE <<history[CHOOSE i \in at : \A j \in at : j <= i]>>

\* what a listing shows of a tool
ListedAs(op, tool) == IF op = "All" THEN tool ELSE entityToolDefinition(tool)

\* C23: Get(n) returns the tool registered last under n, and nothing when
\* none was; a Register call with a name that is taken replaces the tool; All()
\* and Definitions() hold one entry for every registered name and no other
\* entry, the entry describing the latest registration.
C23_LastWriteWins ==
    /\ \A n \in CalledNames : RegistryGet(tools, n) = LatestRegistration(registered, n)
    /\ \A i \in DOMAIN listings :
          LET l == listings[i]
              names == {l.Registered[k].Name : k \in DOMAIN l.Registered}
          IN /\ Len(l.Result) = Cardinality(names)
             /\ \A n \in names :
                   \E k \in DOMAIN l.Result :
                       l.Result[k] = ListedAs(l.Op, LatestRegistration(l.Registered, n)[1])

\* browser_fill was registered twice before a listing was taken and the
\* second version is the registered one
W23_Reregistered ==
    /\ \E i \in DOMAIN listings :
          /\ Cardinality(RegistrationsOf(listings[i].Registered, ToolBrowserFill)) = 2
          /\ Len(listings[i].Result) = 2
    /\ Cardinality(RegistrationsOf(registered, ToolBrowserFill)) = 2
    /\ registered[1].Name = ToolBrowserFill
    /\ registered[1] # tools[ToolBrowserFill]

\* C24: two Definitions() calls after the same registrations return the
\* definitions in the same order.
C24_DeterministicListing ==
    \A i, j \in DOMAIN listings :
        (/\ listings[i].Op = "Definitions"
         /\ listings[j].Op = "Definitions"
         /\ listings[i].Registered = listings[j].Registered)
        => listings[i].Result = listings[j].Result

(***************************************************************************)
(* Properties of the messages the model port produces and sends (checked   *)
(* under ConvSpec).                                                        *)
(***************************************************************************)
\* the port has produced a message: convOut.Message
PortReturned == convPc \in {"convertResponseMessage", "ChatStream"}

BlocksOfType(msg, type) == SelectSeq(msg.ContentBlocks, LAMBDA b : b.Type = type)

\* the texts of a sequence of strings, joined
RECURSIVE Joined(_)
Joined(texts) == IF texts = <<>> THEN "" ELSE Head(texts) \o Joined(Tail(texts))

\* C25: in a message the model port produces the flat Content is the
\* concatenation of the Text of the text-typed blocks; the reasoning text is
\* no part of it, and with an empty Content there is no text block.
C25_ContentIsTextBlocks ==
    PortReturned =>
        LET msg == convOut.Message
            texts == BlocksOfType(msg, ContentTypeText)
        IN /\ msg.Content = Joined([k \in DOMAIN texts |-> texts[k].Text])
           /\ msg.Content = "" => texts = <<>>
           /\ \A k \in DOMAIN msg.ContentBlocks :
                 msg.ContentBlocks[k].Type # ContentTypeText => msg.ContentBlocks[k].Text = ""
           /\ convPc = "ChatStream" => msg.Content = convIn.textContent

\* a stream with reasoning, text and a tool call was assembled
W25_ReasoningAndText ==
    /\ convPc = "ChatStream"
    /\ convIn.thinkingContent # ""
    /\ convIn.textContent # ""
    /\ Len(convOut.Message.ContentBlocks) = 3
    /\ convOut.Message.ContentBlocks[1].Type = ContentTypeThinking

\* C26: in a message the model port produces there are as many tool-use
\* blocks as tool calls, the j-th block carries the id, name and arguments of
\* the j-th tool call, and no two blocks point to the same tool-call variable.
C26_ToolUseOwnership ==
    PortReturned =>
        LET msg == convOut.Message
            uses == BlocksOfType(msg, ContentTypeToolUse)
        IN /\ Len(uses) = Len(msg.ToolCalls)
           /\ Len(convOut.Refs) = Len(uses)
           /\ \A j \in DOMAIN uses : uses[j].ToolUse = <<msg.ToolCalls[j]>>
           /\ \A j, k \in DOMAIN uses : j # k => convOut.Refs[j] # convOut.Refs[k]

\* a response with text and two tool calls that are equal in every field
W26_TwoEqualCalls ==
    /\ convPc = "convertResponseMessage"
    /\ convIn.Content # ""
    /\ Len(convOut.Message.ToolCalls) = 2
    /\ convOut.Message.ToolCalls[1] = convOut.Message.ToolCalls[2]
    /\ Len(convOut.Message.ContentBlocks) = 3

\* what the claim lets a block contribute to the outbound content
Rendered(b) ==
    CASE b.Type = ContentTypeThinking /\ b.Thinking # "" ->
            Joined(<<"<thinking>", "\n", b.Thinking, "\n", "</thinking>", "\n">>)
      [] b.Type = ContentTypeText /\ b.Text # "" -> b.Text
      [] OTHER -> ""

\* C29: convertMessages sends, for a message with content blocks, the
\* concatenation in block order of the wrapped non-empty thinking blocks and
\* the non-empty text blocks, and the flat Content when that is empty or
\* there are no blocks; role, tool-call id, name and the tool calls are
\* passed on as they are.
C29_OutboundConversion ==
    convPc = "convertMessages" =>
        /\ Len(convOut) = Len(convIn)
        /\ \A i \in DOMAIN convIn :
              LET m == convIn[i]
                  o == convOut[i]
                  joined == Joined([k \in DOMAIN m.ContentBlocks |-> Rendered(m.ContentBlocks[k])])
              IN /\ o.Content = IF joined = "" THEN m.Content ELSE joined
                 /\ o.Role = m.Role
                 /\ o.ToolCallID = m.ToolCallID
                 /\ o.Name = m.Name
                 /\ Len(o.ToolCalls) = Len(m.ToolCalls)
                 /\ \A k \in DOMAIN m.ToolCalls :
                       /\ o.ToolCalls[k].ID = m.ToolCalls[k].ID
                       /\ o.ToolCalls[k].Function.Name = m.ToolCalls[k].Name
                       /\ o.ToolCalls[k].Function.Arguments = m.ToolCalls[k].Arguments

\* an assistant message with a thinking block, a tool-use block and a text
\* block, two tool calls and another flat Content was converted
W29_ThinkingThenText ==
    /\ convPc = "convertMessages"
    /\ Len(convIn) = 1
    /\ convIn[1].Content = "Response text"
    /\ Len(convIn[1].ToolCalls) = 2
    /\ Len(convIn[1].ContentBlocks) = 3
    /\ convIn[1].ContentBlocks[1].Thinking = "Let me think about this..."
    /\ convIn[1].ContentBlocks[1].Type = ContentTypeThinking
    /\ convIn[1].ContentBlocks[2].Type = ContentTypeToolUse
    /\ convIn[1].ContentBlocks[3].Text = "Hi there"
    /\ convOut[1].Content = "<thinking>\nLet me think about this...\n</thinking>\nHi there"

(***************************************************************************)
(* The transcript of one loop invocation (checked under LoopSpec).         *)
(***************************************************************************)
IsPrefix(s, t) == Len(s) <= Len(t) /\ \A i \in DOMAIN s : s[i] = t[i]

\* C27: the transcript of an invocation starts as [system prompt, user
\* task]; every step leaves it as it is or appends to it, so that every
\* earlier transcript is a prefix of every later one; and every model call
\* is given the whole transcript of that moment.
C27_TranscriptAppendOnly ==
    [][/\ IsPrefix(messages, messages')
       /\ (pc = "idle" /\ pc' # "idle") =>
             messages' = <<Message(RoleSystem, systemPrompt, <<>>, "", ""),
                           Message(RoleUser, task, <<>>, "", "")>>
       /\ modelCalls' # modelCalls =>
             /\ request' # <<>>
             /\ request'[1].Messages = messages
             /\ messages' = messages]_vars

\* the third model call is made with a transcript that holds two assistant
\* turns and their observations
W27_ThirdCallSeesAll ==
    /\ pc = "AwaitingModel"
    /\ modelCalls = 3
    /\ Len(messages) >= 6
    /\ request # <<>>
    /\ request[1].Messages = messages
    /\ messages[3].Role = RoleAssistant
    /\ messages[4].Role = RoleTool

(***************************************************************************)
(* Successive invocations (checked under RunsSpec).                        *)
(***************************************************************************)
\* the model calls that are the first of their invocation
FirstRequests ==
    {i \in DOMAIN requests : i = 1 \/ requests[i - 1].Invocation # requests[i].Invocation}

\* C28: the first model call of every invocation on an executor or agent
\* object is given the system prompt and the task of that invocation and
\* nothing else: no message of an earlier invocation on the object.
C28_NoTranscriptPersistence ==
    \A i \in FirstRequests :
        /\ Len(requests[i].Messages) = 2
        /\ requests[i].Messages[1].Role = RoleSystem
        /\ requests[i].Messages[2].Role = RoleUser
        /\ requests[i].Messages[2].Content = requests[i].Task

(***************************************************************************)
(* The closed state of the browser adapter (checked under BrowserSpec).    *)
(***************************************************************************)
\* a returned call of one of the five operations whose arguments pass the
\* validation
ValidOperation(r) ==
    \/ r.Op = "Navigate" /\ r.Arg \in {"http://example.com", "HTTPS://EXAMPLE.COM"}
    \/ r.Op \in {"Click", "Fill"} /\ r.Arg = "#test"
    \/ r.Op = "PressEnter"
    \/ r.Op = "Scroll" /\ r.Arg = "down"

\* C30: once Close has run the adapter stays closed and without browser and
\* page, whatever is called; a call made on the closed adapter does not
\* panic; IsReady returns false; Navigate, Click, Fill, PressEnter and Scroll
\* with valid arguments return ErrBrowserNotConnected without using the
\* browser; a second Close changes nothing.
C30_ClosedAdapter ==
    [][/\ closed => /\ closed'
                    /\ browser' = <<>>
                    /\ launcher' = <<>>
                    /\ page' = <<>>
       /\ \A i \in DOMAIN browserLog' :
             LET r == browserLog'[i]
             IN r.ClosedAtCall =>
                   /\ ~r.Panicked
                   /\ ~r.Touched
                   /\ r.Op = "IsReady" => ~r.Ready
                   /\ ValidOperation(r) =>
                         /\ r.Err # <<>>
                         /\ r.Err[1].Is = ErrBrowserNotConnected]_vars

\* Close was called twice and then Navigate with a valid URL, which returned
\* ErrBrowserNotConnected
W30_NavigateAfterSecondClose ==
    /\ Len(browserLog) = 3
    /\ browserLog[1].Op = "Close"
    /\ browserLog[2].Op = "Close"
    /\ browserLog[2].ClosedAtCall
    /\ browserLog[3].Op = "Navigate"
    /\ browserLog[3].Arg = "HTTPS://EXAMPLE.COM"
    /\ browserLog[3].ClosedAtCall
    /\ browserLog[3].Err = <<Sentinel(ErrBrowserNotConnected)>>
    /\ closed

\* C31: in the evaluated sub-agent, once the loop of an attempt has returned
\* an error (a failed model call, also one failed by cancellation, or the
\* iteration ceiling), the only thing Execute does is return that error with
\* an empty result: no Evaluate call is made for the attempt, no further
\* attempt starts, whatever earlier attempts returned.
C31_AttemptErrorEndsExecute ==
    [][pc = "Failed" =>
          /\ agentPc \in {"Attempt", "Returned"}
          /\ err # <<>>
          /\ Len(evaluations) = Len(attempts) - 1
          /\ Len(results) = Len(attempts) - 1
          /\ attempts' = attempts
          /\ evaluations' = evaluations
          /\ results' = results
          /\ agentPc = "Attempt" =>
                \/ agentPc' = "Returned" /\ agentResult' = "" /\ agentErr' = err
                \/ UNCHANGED agentVars
          /\ agentPc = "Returned" =>
                /\ agentResult = "" /\ agentErr = err
                /\ UNCHANGED agentVars]_vars

\* C31 witness: Execute has returned the error of a cancelled model call of
\* its second or third attempt, the attempts before having returned results
W31_CancelledAfterResults ==
    /\ agentPc = "Returned"
    /\ agentErr = <<LLMRequestFailed(ctxCanceled)>>
    /\ agentResult = ""
    /\ Len(results) >= 1
    /\ lastResult # ""

\* C32: when the model call of Evaluate fails, Execute returns the result of
\* the attempt just made with a nil error and starts no further attempt.
C32_EvaluatorFailureReturnsResult ==
    \A i \in 1..Len(evaluations) :
        evaluations[i].err # <<>> =>
            /\ i = Len(evaluations)
            /\ Len(attempts) = i
            /\ Len(results) = i
            /\ agentPc = "Returned"
            /\ agentErr = <<>>
            /\ agentResult = results[i]

\* C32 witness: the judge's model call failed on a retry
W32_JudgeFailedOnRetry ==
    /\ Len(evaluations) >= 2
    /\ evaluations[Len(evaluations)].err # <<>>
    /\ agentPc = "Returned"

\* C36: every Evaluate call, those of retries included, is given the
\* original task, the result of the attempt just made and the category of
\* the sub-agent; the feedback-augmented task text is never passed.
C36_JudgeSeesOriginalTask ==
    \A i \in 1..Len(evaluations) :
        /\ Len(results) >= i
        /\ Len(attempts) >= i
        /\ evaluations[i].criteria =
              [TaskDescription |-> task, ActualResult |-> results[i], AgentType |-> variant]
        /\ i > 1 => evaluations[i].criteria.TaskDescription # attempts[i]

\* C36 witness: the third attempt, made with a feedback-augmented task
\* text, has been evaluated
W36_RetryEvaluated ==
    /\ Len(evaluations) = 3
    /\ attempts[3] # task
    /\ attempts[3] # attempts[2]

StartsWith(text, prefix) ==
    Len(text) >= Len(prefix) /\ SubSeq(text, 1, Len(prefix)) = prefix

\* the delegations of the orchestrator's model that fail, with the message
\* of the failure: <<>> for a delegation that succeeds
DelegationFailure(tc, run) ==
    IF tc.Name = "agent_analyze" THEN <<"unknown agent tool 'agent_analyze'">>
    ELSE IF tc.Arguments = argsCut THEN <<"invalid arguments: unexpected end of JSON input">>
    ELSE IF tc.Arguments = argsWizard THEN <<"agent not found: wizard">>
    ELSE IF run = "chat fails"
    THEN IF tc.Name = ToolRunAgent
         THEN <<"agent execution failed: llm request failed: chat completion failed: connection reset">>
         ELSE <<"llm request failed: chat completion failed: connection reset">>
    ELSE IF run = "calls tools" /\ tc.Arguments # argsNavigation
    THEN IF tc.Name = ToolRunAgent
         THEN <<"agent execution failed: max iterations (5) exceeded">>
         ELSE <<"max iterations (5) exceeded">>
    ELSE <<>>

\* C33: in the orchestrator loop a delegation that fails (unknown agent
\* tool or agent type, malformed arguments, failed model call or exhausted
\* ceiling of the sub-agent) appends "Error: <failure>" as the tool-role
\* observation of the call; the loop does not end on it but goes on to the
\* next call of the turn or to the next model call, which is made while the
\* iteration counter is at most 30; the loop fails only on its own model
\* call or on its own ceiling.
C33_DelegationFailureIsObservation ==
    [][/\ (pc \in {"DispatchingTools", "ToolRunning"} /\ messages' # messages) =>
             LET tc == resp.ToolCalls[tcIdx]
                 m == messages'[Len(messages')]
                 failure == DelegationFailure(tc, delegate)
             IN /\ messages' = Append(messages, m)
                /\ m.Role = RoleTool /\ m.ToolCallID = tc.ID /\ m.Name = tc.Name
                /\ failure # <<>> => m.Content = "Error: " \o failure[1]
                /\ failure = <<>> => ~StartsWith(m.Content, "Error: ")
                /\ err' = <<>> /\ result' = <<>>
                /\ IF tcIdx < Len(resp.ToolCalls)
                   THEN pc' = "DispatchingTools" /\ tcIdx' = tcIdx + 1 /\ iteration' = iteration
                   ELSE pc' = "Running" /\ iteration' = iteration + 1
       /\ (pc = "Running" /\ iteration <= 30) => pc' = "AwaitingModel"
       /\ pc = "Failed" => err \in {<<"llm request failed: chat completion failed: connection reset">>,
                                    <<"max iterations (30) exceeded">>}]_vars

\* C33 witness: the orchestrator makes its 30th model call after a turn
\* whose delegation to the form agent ended at the sub-agent's ceiling
W33_ThirtiethCallAfterFailures ==
    /\ variant = "orchestrator"
    /\ pc = "AwaitingModel"
    /\ iteration = 30
    /\ messages[Len(messages)].Content = "Error: agent execution failed: max iterations (5) exceeded"
    /\ messages[Len(messages) - 1].Content = "Error: agent not found: wizard"

\* C34: in the navigation agent, once all 10 turns of the loop carried tool
\* calls, one user message demanding the final report is appended and one
\* more model call is made, whose request offers no tool; the text of that
\* turn is returned as the result with a nil error and no tool call it
\* carries is executed. One Execute makes at most 11 model calls and fails
\* only with the error of a failed model call, never with a ceiling error.
C34_ForcedFinalReport ==
    [][/\ modelCalls' <= 11
       /\ (pc = "Running" /\ iteration > 10) =>
             /\ modelCalls = 10
             /\ Len(messages') = Len(messages) + 1
             /\ SubSeq(messages', 1, Len(messages)) = messages
             /\ messages'[Len(messages')].Role = RoleUser
             /\ StartsWith(messages'[Len(messages')].Content,
                           "CRITICAL: Maximum iterations reached. You MUST provide your FINAL REPORT now.")
             /\ request' = <<[Messages |-> messages', Tools |-> <<>>]>>
             /\ modelCalls' = 11
             /\ executed' = executed
             /\ pc' = "AwaitingSummary"
       /\ pc = "AwaitingSummary" =>
             /\ modelCalls' = modelCalls
             /\ executed' = executed
             /\ messages' = messages
             /\ \/ pc' = "Done" /\ err' = <<>> /\ result' = resp'.Content
                \/ /\ pc' = "Failed"
                   /\ result' = ""
                   /\ err' = <<"summary iteration failed: chat completion failed: connection reset">>
       /\ pc' = "Failed" =>
             err' \in {<<"llm request failed: chat completion failed: connection reset">>,
                       <<"summary iteration failed: chat completion failed: connection reset">>}
       /\ pc \in {"Done", "Failed"} => UNCHANGED vars]_vars

\* C34 witness: the eleventh turn carried two tool calls and its text was
\* returned; only the tool calls of the ten turns before were dispatched
W34_SummaryTurnWithToolCalls ==
    /\ variant = "navigation"
    /\ pc = "Done"
    /\ modelCalls = 11
    /\ Len(resp.ToolCalls) = 2
    /\ result = thinkingText
    /\ err = <<>>
    /\ Len(executed) = 20

\* the calls of a turn that the registry resolves, as executeTool runs them
ResolvedCalls(turn) ==
    LET resolved == SelectSeq(turn, LAMBDA tc : tc.Name \in {"echo", "boom", "fail"})
    IN [k \in 1..Len(resolved) |->
           [Name |-> resolved[k].Name, Arguments |-> resolved[k].Arguments]]

\* C35: the loop returns the max-iterations error only from its head, after
\* the ceiling-th model turn was dispatched completely: every resolved call
\* of that turn was executed and the observation of every call of the turn
\* is in the transcript behind the turn, in call order; the step that fails
\* executes nothing and calls no model, so the last request, made before
\* that turn, is the last the model saw.
C35_CeilingAfterDispatch ==
    [][(pc' = "Failed" /\ err' = <<"max iterations (" \o ToString(maxIterations(variant))
                                     \o ") exceeded">>) =>
          LET n == Len(resp.ToolCalls)
              sent == Len(request[1].Messages)
              ran == ResolvedCalls(resp.ToolCalls)
          IN /\ pc = "Running"
             /\ modelCalls = maxIterations(variant)
             /\ iteration = maxIterations(variant) + 1
             /\ n > 0
             /\ Len(messages) = sent + 1 + n
             /\ SubSeq(messages, 1, sent) = request[1].Messages
             /\ messages[sent + 1] = resp
             /\ \A k \in 1..n :
                   /\ messages[sent + 1 + k].Role = RoleTool
                   /\ messages[sent + 1 + k].ToolCallID = resp.ToolCalls[k].ID
                   /\ messages[sent + 1 + k].Name = resp.ToolCalls[k].Name
             /\ Len(executed) = maxIterations(variant) * Len(ran)
             /\ SubSeq(executed, Len(executed) - Len(ran) + 1, Len(executed)) = ran
             /\ messages' = messages
             /\ executed' = executed
             /\ modelCalls' = modelCalls
             /\ request' = request]_vars

\* C35 witness: the form agent failed at its ceiling after the two tool
\* calls of its fifth turn had been executed and observed
W35_FifthTurnDispatched ==
    /\ variant = "form"
    /\ pc = "Failed"
    /\ err = <<"max iterations (5) exceeded">>
    /\ modelCalls = 5
    /\ Len(resp.ToolCalls) = 2
    /\ Len(executed) = 10
    /\ messages[Len(messages)].Role = RoleTool
    /\ Len(messages) = Len(request[1].Messages) + 3

\* the entry lines of the agents in S whose names are in the list, in list order
RECURSIVE EntryLines(_, _)
EntryLines(S, names) ==
    IF names = <<>> THEN ""
    ELSE (IF \E a \in S : a.Name = names[1]
          THEN "- " \o names[1] \o ": "
                    \o (CHOOSE a \in S : a.Name = names[1]).Description \o "\n"
          ELSE "")
         \o EntryLines(S, Tail(names))

\* C37: the prompt GenerateOrchestratorPrompt returns is fixed by the
\* template and the set of registered agents, whatever the order List()
\* returned them in: with the agents template it is the template's text
\* followed by one "- name: description" line per agent in ascending name
\* order and a nil error, for the empty registry the text alone; a template
\* without actions is returned as it is; a template that fails to parse or
\* to execute gives an empty prompt and an error.
C37_PromptIndependentOfListOrder ==
    promptOut # <<>> =>
        LET S == {listed[i] : i \in 1..Len(listed)}
        IN /\ S = agentRegistry
           /\ Len(listed) = Cardinality(S)
           /\ promptTemplate = agentsTemplate =>
                 promptOut[1] =
                     [prompt |-> "Test template\n\n## AVAILABLE AGENTS\n\n"
                                 \o EntryLines(S, <<"analysis", "extraction", "form", "navigation">>),
                      err |-> <<>>]
           /\ promptTemplate = plainTemplate =>
                 promptOut[1] = [prompt |-> "You are the orchestrator.", err |-> <<>>]
           /\ promptTemplate = unclosedTemplate =>
                 promptOut[1].prompt = "" /\ promptOut[1].err # <<>>

\* C37 witness: List() returned the four agents in descending name order
\* and the prompt was generated from the agents template
W37_ListedDescending ==
    /\ promptOut # <<>>
    /\ promptTemplate = agentsTemplate
    /\ Len(listed) = 4
    /\ listed[1].Name = "navigation"
    /\ listed[2].Name = "form"
    /\ listed[3].Name = "extraction"
    /\ listed[4].Name = "analysis"
    /\ promptOut[1].err = <<>>

\* C38: an operation that has passed checkState uses b.page only while Close
\* has not set it to nil: the step in which an in-flight Navigate, Click,
\* Fill, PressEnter or Scroll uses the page finds the adapter open and the
\* page reference non-nil, and the call does not panic.
C38_InFlightUsesOpenPage ==
    [][\A g \in Goroutines :
          (inflight[g] # <<>> /\ inflight'[g] = <<>>) =>
              /\ ~closed
              /\ page # <<>>
              /\ ~browserLog'[Len(browserLog')].Panicked]_vars

====
